---- MODULE Spec2Model ----
(***************************************************************************)
(* Model of the PicoClaw browser server (src/browser-server/server.py):    *)
(* the /ask and /api/intel pipelines (search, merge, page selection,       *)
(* parallel scrape, context assembly, synthesis) and the byte-budget       *)
(* truncation.                                                             *)
(*                                                                         *)
(* A Python str is modelled as a sequence of Unicode code points, a bytes  *)
(* object as a sequence of integers in 0..255.                             *)
(***************************************************************************)
EXTENDS Integers, Sequences, FiniteSets, TLC

VARIABLES
    \* ---- _truncate_utf8(text, max_bytes) applied on its own ----
    t_pc,        \* "call" | "once" | "twice"
    t_text,      \* the argument text
    t_max,       \* the argument max_bytes
    t_out,       \* _truncate_utf8(text, max_bytes)
    t_out2,      \* _truncate_utf8(t_out, max_bytes)
    \* ---- the page selection parse applied on its own ----
    s_pc,        \* "parse" | "picked"
    s_reply,     \* pick_response, the selection LLM reply
    s_n,         \* len(all_results)
    s_picked,    \* picked_indices (0-based, as in the code)
    s_urls,      \* scrape_urls
    \* ---- the merge of the two search results applied on its own ----
    m_pc,        \* "merge" | "merged"
    m_ddg,       \* ddg_results
    m_news,      \* news_results
    m_all,       \* all_results
    \* ---- one request to /ask or /api/intel ----
    pc,            \* where the handler is suspended
    ep,            \* "ask" | "intel" ("none" before the request)
    q,             \* q of ask, query of api_intel
    coin,          \* the coin whose price is looked up
    mode,          \* api_intel: mode
    max_bytes,     \* api_intel: max_bytes (after the cap at 6000)
    price_info,    \* price_info of ask, price_prefix of api_intel
    ddg_st,        \* the ddg_search task: "none" | "queued" | "running" | "done"
    news_st,       \* the google_news_rss task: "none" | "running" | "done"
    ddg_results,
    news_results,
    all_results,
    picked,        \* picked_indices of ask, picked of api_intel (0-based)
    scrape_urls,
    task_st,       \* per scrape_url task: "queued" | "running" | "done"
    pages,         \* the results of asyncio.gather, by position
    order,         \* the positions of the gathered tasks in order of completion
    scraped,       \* scraped_content of ask, scraped of api_intel
    context,       \* context of ask, compress_input of api_intel
    resp,          \* the response sent
    err,           \* the call (or step) whose exception ended the request
    activity_log,  \* _activity_log
    req,           \* the inbound request: headers and body
    started,       \* per external call: how many times the request issued it
    ended,         \* per external call: "no" | "ok" | "fault"
    \* ---- the worker pool _executor under several requests ----
    pool_phase,    \* per request: "idle" | "search" | "searched" | "scrape" | "done"
    pool_left,     \* per request: the fetches it is waiting for
    pool_queue,    \* the work queue of _executor, oldest first
    pool_running,  \* the fetches the worker threads are executing
    light,         \* a concurrent request that needs no stealth fetch
    \* ---- the activity log and the dashboard sessions on their own ----
    log_calls,     \* how many calls of log_activity the log driver has made
    sessions,      \* _sessions: token -> expiry time
    now,           \* time.time(), in seconds
    issued,        \* token -> the time at which a login issued it
    revoked,       \* the tokens removed by logout and by an expired check
    verdict        \* the last check_session call: token, time, result

truncVars == <<t_pc, t_text, t_max, t_out, t_out2>>
selVars == <<s_pc, s_reply, s_n, s_picked, s_urls>>
mergeVars == <<m_pc, m_ddg, m_news, m_all>>
reqVars == <<pc, ep, q, coin, mode, max_bytes, price_info, ddg_st, news_st,
             ddg_results, news_results, all_results, picked, scrape_urls,
             task_st, pages, order, scraped, context, resp, err, activity_log,
             req, started, ended>>
\* reqVars without the one global among them, _activity_log
reqLocals == <<pc, ep, q, coin, mode, max_bytes, price_info, ddg_st, news_st,
               ddg_results, news_results, all_results, picked, scrape_urls,
               task_st, pages, order, scraped, context, resp, err, req,
               started, ended>>
poolVars == <<pool_phase, pool_left, pool_queue, pool_running, light>>
adminVars == <<log_calls, sessions, now, issued, revoked, verdict>>
vars == <<truncVars, selVars, mergeVars, reqVars, poolVars, adminVars>>

\* ------------------------------------------------------------------ bounds
MaxTextLen == 3
MaxBytes == 7
MaxNegBytes == 2
MaxReplyPieces == 5
MaxCand == 12
MaxDdg == 3
MaxNews == 2
MaxRequests == 2

\* ------------------------------------------------------- program constants
MAX_LOG == 50
PoolWorkers == 4
ScrapeCap == 6000
MinBlockLen == 50
AskExcerpt == 3000
IntelExcerpt == 2500
DigestMax == 10
MaxPicked == 5
FallbackPicked == 4
DefaultMaxBytes == 4000
MaxBytesCeiling == 6000
DetailMax == 120
ErrMax == 200
MinFragment == 5

\* ------------------------------------------------------------ str helpers
Min(a, b) == IF a <= b THEN a ELSE b
Max(a, b) == IF a >= b THEN a ELSE b

\* s[:n] of Python, for a str or bytes s and any integer n
PySliceTo(s, n) ==
    IF n >= 0 THEN SubSeq(s, 1, Min(n, Len(s)))
    ELSE SubSeq(s, 1, Max(Len(s) + n, 0))

\* s.startswith(p)
StartsWith(s, p) == Len(s) >= Len(p) /\ SubSeq(s, 1, Len(p)) = p

RECURSIVE Concat(_)
Concat(ss) == IF ss = <<>> THEN <<>> ELSE Head(ss) \o Concat(Tail(ss))

\* ------------------------------------------------------------------ UTF-8
\* str.encode("utf-8") of one code point
EncodeChar(cp) ==
    IF cp < 128 THEN <<cp>>
    ELSE IF cp < 2048 THEN <<192 + (cp \div 64), 128 + (cp % 64)>>
    ELSE IF cp < 65536 THEN
        <<224 + (cp \div 4096), 128 + ((cp \div 64) % 64), 128 + (cp % 64)>>
    ELSE <<240 + (cp \div 262144), 128 + ((cp \div 4096) % 64),
           128 + ((cp \div 64) % 64), 128 + (cp % 64)>>

\* text.encode("utf-8")
RECURSIVE Utf8Encode(_)
Utf8Encode(text) ==
    IF text = <<>> THEN <<>> ELSE EncodeChar(Head(text)) \o Utf8Encode(Tail(text))

IsCont(b) == b >= 128 /\ b < 192

\* the number of bytes the sequence started by lead byte b has (0: no lead byte)
SeqLen(b) ==
    IF b < 128 THEN 1
    ELSE IF b >= 194 /\ b < 224 THEN 2
    ELSE IF b >= 224 /\ b < 240 THEN 3
    ELSE IF b >= 240 /\ b < 245 THEN 4
    ELSE 0

DecodeSeq(bs) ==
    IF Len(bs) = 1 THEN bs[1]
    ELSE IF Len(bs) = 2 THEN (bs[1] - 192) * 64 + (bs[2] - 128)
    ELSE IF Len(bs) = 3 THEN
        (bs[1] - 224) * 4096 + (bs[2] - 128) * 64 + (bs[3] - 128)
    ELSE (bs[1] - 240) * 262144 + (bs[2] - 128) * 4096
         + (bs[3] - 128) * 64 + (bs[4] - 128)

\* bytes.decode("utf-8", errors="ignore"): a complete sequence gives its code
\* point; a sequence cut short by the end of the input, a stray continuation
\* byte and an invalid lead byte give nothing
RECURSIVE Utf8DecodeIgnore(_)
Utf8DecodeIgnore(bs) ==
    IF bs = <<>> THEN <<>>
    ELSE LET n == SeqLen(Head(bs))
             have == Min(n, Len(bs))
             contOk == \A k \in 2..have : IsCont(bs[k])
         IN  IF n = 0 \/ ~contOk THEN Utf8DecodeIgnore(Tail(bs))
             ELSE IF Len(bs) < n THEN <<>>
             ELSE <<DecodeSeq(SubSeq(bs, 1, n))>>
                  \o Utf8DecodeIgnore(SubSeq(bs, n + 1, Len(bs)))

ByteLen(text) == Len(Utf8Encode(text))

\* _truncate_utf8(text, max_bytes)
truncate_utf8(text, maxb) ==
    LET encoded == Utf8Encode(text)
    IN  IF Len(encoded) <= maxb THEN text
        ELSE Utf8DecodeIgnore(PySliceTo(encoded, maxb))

\* ----------------------------------------------------------- text formats
\* str(n) of a non-negative integer
RECURSIVE Str(_)
Str(n) == IF n < 10 THEN <<48 + n>> ELSE Str(n \div 10) \o <<48 + (n % 10)>>

\* the digits ds with a "," before every group of three from the right
RECURSIVE Grouped(_)
Grouped(ds) ==
    IF Len(ds) <= 3 THEN ds
    ELSE Grouped(SubSeq(ds, 1, Len(ds) - 3)) \o <<44>>
         \o SubSeq(ds, Len(ds) - 2, Len(ds))

Abs(n) == IF n < 0 THEN 0 - n ELSE n

\* format(x, ".2f") of the number h / 100 (h an integer number of hundredths),
\* with "," grouping when comma is set and an explicit "+" when plus is set
Fixed2(h, comma, plus) ==
    LET whole == Str(Abs(h) \div 100)
        frac == <<48 + ((Abs(h) % 100) \div 10), 48 + (Abs(h) % 10)>>
    IN  (IF h < 0 THEN <<45>> ELSE IF plus THEN <<43>> ELSE <<>>)
        \o (IF comma THEN Grouped(whole) ELSE whole) \o <<46>> \o frac

\* q.lower() on ASCII letters
Lower(s) == [i \in 1..Len(s) |-> IF s[i] >= 65 /\ s[i] <= 90 THEN s[i] + 32 ELSE s[i]]

\* sub in s
Contains(s, sub) ==
    \E i \in 1..(Len(s) - Len(sub) + 1) : SubSeq(s, i, i + Len(sub) - 1) = sub

\* s.strip() on spaces
RECURSIVE LStrip(_)
LStrip(s) == IF s # <<>> /\ Head(s) = 32 THEN LStrip(Tail(s)) ELSE s
RECURSIVE RStrip(_)
RStrip(s) ==
    IF s # <<>> /\ s[Len(s)] = 32 THEN RStrip(SubSeq(s, 1, Len(s) - 1)) ELSE s
Strip(s) == RStrip(LStrip(s))

\* sep.join(parts)
RECURSIVE Join(_, _)
Join(sep, parts) ==
    IF parts = <<>> THEN <<>>
    ELSE IF Len(parts) = 1 THEN parts[1]
    ELSE parts[1] \o sep \o Join(sep, Tail(parts))

\* the words the crypto detection and the coin choice look for
Word ==
    \* "price"   (line 262)
    [price |-> <<112, 114, 105, 99, 101>>,
    \* "btc"   (line 262)
     btc |-> <<98, 116, 99>>,
    \* "bitcoin"   (lines 262-263)
     bitcoin |-> <<98, 105, 116, 99, 111, 105, 110>>,
    \* "eth"   (lines 262-264)
     eth |-> <<101, 116, 104>>,
    \* "ethereum"   (lines 262-264)
     ethereum |-> <<101, 116, 104, 101, 114, 101, 117, 109>>,
    \* "sol"   (lines 262-265)
     sol |-> <<115, 111, 108>>,
    \* "solana"   (lines 262-265)
     solana |-> <<115, 111, 108, 97, 110, 97>>,
    \* "crypto"   (line 262)
     crypto |-> <<99, 114, 121, 112, 116, 111>>,
    \* "bit"   (line 414)
     bit |-> <<98, 105, 116>>]
\* the literals of the responses and of the error texts
Msg ==
    \* "Error"   (line 332)
    [Error |-> <<69, 114, 114, 111, 114>>,
    \* "Error scraping "   (line 127)
     ErrorScraping |-> <<69, 114, 114, 111, 114, 32, 115, 99, 114, 97, 112, 105, 110, 103, 32>>,
    \* ": "   (line 127)
     ColonSp |-> <<58, 32>>,
    \* "LIVE DATA: "   (line 269)
     LiveData |-> <<76, 73, 86, 69, 32, 68, 65, 84, 65, 58, 32>>,
    \* "No search results found for: "   (line 291)
     NoSearchResults |-> <<78, 111, 32, 115, 101, 97, 114, 99, 104, 32, 114, 101, 115, 117, 108, 116, 115, 32, 102, 111, 117, 110, 100, 32, 102, 111, 114, 58, 32>>,
    \* "No results found for: "   (line 473)
     NoResults |-> <<78, 111, 32, 114, 101, 115, 117, 108, 116, 115, 32, 102, 111, 117, 110, 100, 32, 102, 111, 114, 58, 32>>,
    \* "scrape failed: "   (line 429)
     ScrapeFailed |-> <<115, 99, 114, 97, 112, 101, 32, 102, 97, 105, 108, 101, 100, 58, 32>>,
    \* "coingecko.com"   (line 421)
     Coingecko |-> <<99, 111, 105, 110, 103, 101, 99, 107, 111, 46, 99, 111, 109>>,
    \* "\n"   (line 125)
     Nl |-> <<10>>,
    \* "unauthorized"   (line 390)
     Unauthorized |-> <<117, 110, 97, 117, 116, 104, 111, 114, 105, 122, 101, 100>>,
    \* "invalid json"   (line 395)
     InvalidJson |-> <<105, 110, 118, 97, 108, 105, 100, 32, 106, 115, 111, 110>>,
    \* "missing query"   (line 403)
     MissingQuery |-> <<109, 105, 115, 115, 105, 110, 103, 32, 113, 117, 101, 114, 121>>,
    \* "missing url"   (line 426)
     MissingUrl |-> <<109, 105, 115, 115, 105, 110, 103, 32, 117, 114, 108>>,
    \* "timeout"   (lines 126-127)
     Timeout |-> <<116, 105, 109, 101, 111, 117, 116>>,
    \* "unsupported format string passed to NoneType.__format__"   (line 417)
     TypeError |-> <<117, 110, 115, 117, 112, 112, 111, 114, 116, 101, 100, 32, 102, 111, 114, 109, 97, 116, 32, 115, 116, 114, 105, 110, 103, 32, 112, 97, 115, 115, 101, 100, 32, 116, 111, 32, 78, 111, 110, 101, 84, 121, 112, 101, 46, 95, 95, 102, 111, 114, 109, 97, 116, 95, 95>>]
\* the literals of the price lines of ask, api_intel and /price
PriceLit ==
    \* " price is $"   (line 269)
    [PriceIs |-> <<32, 112, 114, 105, 99, 101, 32, 105, 115, 32, 36>>,
    \* " USD (24h change: "   (line 269)
     Usd24h |-> <<32, 85, 83, 68, 32, 40, 50, 52, 104, 32, 99, 104, 97, 110, 103, 101, 58, 32>>,
    \* "%)\n\n"   (line 269)
     PctEnd |-> <<37, 41, 10, 10>>,
    \* " $"   (line 417)
     Dollar |-> <<32, 36>>,
    \* " ("   (line 417)
     SpParen |-> <<32, 40>>,
    \* "% 24h) (coingecko)"   (line 417)
     Pct24h |-> <<37, 32, 50, 52, 104, 41, 32, 40, 99, 111, 105, 110, 103, 101, 99, 107, 111, 41>>,
    \* " | "   (line 451)
     PrefixSep |-> <<32, 124, 32>>,
    \* "Price not found for: "   (line 419)
     PriceNotFound |-> <<80, 114, 105, 99, 101, 32, 110, 111, 116, 32, 102, 111, 117, 110, 100, 32, 102, 111, 114, 58, 32>>]
\* the literals of the synthesis context of ask and of api_intel
CtxLit ==
    \* "Search results summary:\n"   (line 337)
    [SummaryHead |-> <<83, 101, 97, 114, 99, 104, 32, 114, 101, 115, 117, 108, 116, 115, 32, 115, 117, 109, 109, 97, 114, 121, 58, 10>>,
    \* "\n\nScraped page content:"   (line 339)
     ScrapedHead |-> <<10, 10, 83, 99, 114, 97, 112, 101, 100, 32, 112, 97, 103, 101, 32, 99, 111, 110, 116, 101, 110, 116, 58>>,
    \* "Question: "   (line 506)
     Question |-> <<81, 117, 101, 115, 116, 105, 111, 110, 58, 32>>,
    \* "\n\nSearch headlines:\n"   (line 506)
     Headlines |-> <<10, 10, 83, 101, 97, 114, 99, 104, 32, 104, 101, 97, 100, 108, 105, 110, 101, 115, 58, 10>>,
    \* "\n\nScraped pages:"   (line 508)
     ScrapedPages |-> <<10, 10, 83, 99, 114, 97, 112, 101, 100, 32, 112, 97, 103, 101, 115, 58>>,
    \* "- "   (line 336)
     Dash |-> <<45, 32>>]
\* the literals around one scraped block, in ask and in api_intel
BlockLit ==
    \* "\n--- ["   (line 333)
    [BlockOpenAsk |-> <<10, 45, 45, 45, 32, 91>>,
    \* "] "   (line 333)
     BlockMidAsk |-> <<93, 32>>,
    \* " ---\n"   (line 333)
     BlockEndAsk |-> <<32, 45, 45, 45, 10>>,
    \* "\n["   (line 502)
     BlockOpenIntel |-> <<10, 91>>,
    \* "] ("   (line 502)
     BlockMidIntel |-> <<93, 32, 40>>,
    \* ")\n"   (line 502)
     BlockEndIntel |-> <<41, 10>>]
\* the literals of the details given to log_activity
LogLit ==
    \* ": no results"   (line 292)
    [NoResultsLog |-> <<58, 32, 110, 111, 32, 114, 101, 115, 117, 108, 116, 115>>,
    \* "AI picked "   (line 324)
     AiPicked |-> <<65, 73, 32, 112, 105, 99, 107, 101, 100, 32>>,
    \* " pages to scrape"   (line 324)
     PagesToScrape |-> <<32, 112, 97, 103, 101, 115, 32, 116, 111, 32, 115, 99, 114, 97, 112, 101>>,
    \* "price:"   (line 420)
     PriceTag |-> <<112, 114, 105, 99, 101, 58>>,
    \* "browse:"   (line 437)
     BrowseTag |-> <<98, 114, 111, 119, 115, 101, 58>>,
    \* "search:"   (line 523)
     SearchTag |-> <<115, 101, 97, 114, 99, 104, 58>>,
    \* " found, "   (line 352)
     Found |-> <<32, 102, 111, 117, 110, 100, 44, 32>>,
    \* " scraped)"   (line 352)
     Scraped |-> <<32, 115, 99, 114, 97, 112, 101, 100, 41>>,
    \* " (0.0s, "   (line 352)
     ElapsedComma |-> <<32, 40, 48, 46, 48, 115, 44, 32>>,
    \* " (0.0s)"   (line 437)
     ElapsedEnd |-> <<32, 40, 48, 46, 48, 115, 41>>]

\* ------------------------------------------------------ merge and dedupe
\* s.split(sep) for a one-character separator: the parts between separators
RECURSIVE SplitAcc(_, _, _)
SplitAcc(s, sep, cur) ==
    IF s = <<>> THEN <<cur>>
    ELSE IF Head(s) = sep THEN <<cur>> \o SplitAcc(Tail(s), sep, <<>>)
    ELSE SplitAcc(Tail(s), sep, Append(cur, Head(s)))

Split(s, sep) == SplitAcc(s, sep, <<>>)

Slash == 47
Http == <<104, 116, 116, 112>>

\* domain = url.split("/")[2] if len(url.split("/")) > 2 else url
Domain(url) ==
    LET parts == Split(url, Slash)
    IN  IF Len(parts) > 2 THEN parts[3] ELSE url

\* r.get(key, "") of a result dict
Get(r, key) == IF key \in DOMAIN r THEN r[key] ELSE <<>>

\* the loop over ddg_results + news_results: skip an entry whose url is empty
\* or does not start with "http", keep the first entry of each domain
RECURSIVE MergeLoop(_, _, _)
MergeLoop(rs, seen_domains, acc) ==
    IF rs = <<>> THEN acc
    ELSE LET r == Head(rs)
             url == Get(r, "url")
         IN  IF url = <<>> \/ ~StartsWith(url, Http)
             THEN MergeLoop(Tail(rs), seen_domains, acc)
             ELSE IF Domain(url) \notin seen_domains
             THEN MergeLoop(Tail(rs), seen_domains \cup {Domain(url)},
                            Append(acc, r))
             ELSE MergeLoop(Tail(rs), seen_domains, acc)

\* a plausible slip: the web results are kept as they are and only the news
\* results are tested against the hosts seen
\* a plausible slip: all_results is a module-level list that is never
\* cleared, and still holds a candidate of an earlier request
MergeDedup_Accumulate(ddg, news) ==
    MergeLoop(ddg \o news, {}, <<[title |-> <<79>>, url |-> <<104, 116, 116, 112, 58, 47, 47, 111, 47>>,
                                  snippet |-> <<115>>, source |-> <<>>]>>)

MergeDedup_KeepWeb(ddg, news) ==
    MergeLoop(news, {Domain(Get(ddg[i], "url")) : i \in 1..Len(ddg)}, ddg)

\* a plausible slip: the news results are listed first
MergeDedup_NewsFirst(ddg, news) ==
    MergeLoop(news \o ddg, {}, <<>>)

\* all_results of ask and api_intel
MergeDedup(ddg, news) ==
    MergeLoop(ddg \o news, {}, <<>>)

\* ------------------------------------------------------- page selection
IsDigit(c) == c >= 48 /\ c <= 57

\* re.findall(r"\d+", s): the maximal runs of digits of s, left to right
RECURSIVE FindAllDigits(_, _)
FindAllDigits(s, cur) ==
    IF s = <<>> THEN (IF cur = <<>> THEN <<>> ELSE <<cur>>)
    ELSE IF IsDigit(Head(s)) THEN FindAllDigits(Tail(s), Append(cur, Head(s)))
    ELSE (IF cur = <<>> THEN <<>> ELSE <<cur>>) \o FindAllDigits(Tail(s), <<>>)

\* int(tok) of a run of decimal digits
RECURSIVE IntOf(_)
IntOf(tok) ==
    IF tok = <<>> THEN 0
    ELSE IntOf(SubSeq(tok, 1, Len(tok) - 1)) * 10 + (tok[Len(tok)] - 48)

\* for tok in re.findall(...): idx = int(tok); if 0 <= idx < n: append(idx)
RECURSIVE InBoundsOf(_, _)
InBoundsOf(toks, n) ==
    IF toks = <<>> THEN <<>>
    ELSE LET idx == IntOf(Head(toks))
         IN  (IF 0 <= idx /\ idx < n THEN <<idx>> ELSE <<>>)
             \o InBoundsOf(Tail(toks), n)

\* list(range(k))
Range(k) == [i \in 1..k |-> i - 1]

\* a plausible slip: the fallback takes the first 5 instead of the first 4
ParsePicked_Fallback5(pick_response, n) ==
    LET parsed == InBoundsOf(FindAllDigits(pick_response, <<>>), n)
        sel == IF parsed = <<>> THEN Range(Min(FallbackPicked + 1, n)) ELSE parsed
    IN  PySliceTo(sel, MaxPicked)

\* the first occurrence of each element of s, in order
RECURSIVE FirstOccurrences(_, _)
FirstOccurrences(s, acc) ==
    IF s = <<>> THEN acc
    ELSE FirstOccurrences(Tail(s),
             IF \E i \in 1..Len(acc) : acc[i] = Head(s) THEN acc ELSE Append(acc, Head(s)))

\* a plausible slip: repeated indices are removed before the cap
ParsePicked_Dedup(pick_response, n) ==
    LET parsed == FirstOccurrences(InBoundsOf(FindAllDigits(pick_response, <<>>), n), <<>>)
        sel == IF parsed = <<>> THEN Range(Min(FallbackPicked, n)) ELSE parsed
    IN  PySliceTo(sel, MaxPicked)

\* a plausible slip: the cap at 5 is missing
ParsePicked_NoCap(pick_response, n) ==
    LET parsed == InBoundsOf(FindAllDigits(pick_response, <<>>), n)
    IN  IF parsed = <<>> THEN Range(Min(FallbackPicked, n)) ELSE parsed

\* picked_indices of ask (picked of api_intel) from the selection reply and
\* n = len(all_results): parse, fall back to the first 4, cap at 5
ParsePicked(pick_response, n) ==
    LET parsed == InBoundsOf(FindAllDigits(pick_response, <<>>), n)
        sel == IF parsed = <<>> THEN Range(Min(FallbackPicked, n)) ELSE parsed
    IN  PySliceTo(sel, MaxPicked)

\* scrape_urls = [all_results[i]["url"] for i in picked_indices]
ScrapeUrls(results, sel) == [i \in 1..Len(sel) |-> results[sel[i] + 1].url]

\* what _ddg_search appends: title and url non-empty (server.py 109-110)
DdgResult(u) ==
    [title |-> <<68>> \o Domain(u), url |-> u, snippet |-> <<115>>, source |-> <<>>]

\* what google_news_rss appends: title and url non-empty (server.py 156-157)
NewsResult(u) ==
    [title |-> <<78>> \o Domain(u), url |-> u, date |-> <<100>>, source |-> <<>>]

\* ------------------------------------------------------------ the scrape
\* n copies of "."
Pad(n) == [i \in 1..n |-> 46]

\* "http://" + host + "/"
UrlOf(host) == <<104, 116, 116, 112, 58, 47, 47, host, 47>>

\* the hosts of the pages the searches can return, "a" .. "k", and what
\* the fetch of each page gives
Host ==
    \* _scrape_url: page with three content text nodes   (lines 119-123)
    [A |-> 97,
    \* _scrape_url: fetch raises an Exception   (lines 119-127)
     B |-> 98,
    \* _scrape_url: page with a short text   (lines 119-125)
     C |-> 99,
    \* _scrape_url: body fallback   (lines 122-123)
     D |-> 100,
    \* _scrape_url: page text starting with 'Error'   (lines 119-125)
     E |-> 101,
    \* _scrape_url: fetch fault that is no Exception   (lines 119-127)
     F |-> 102,
    \* _scrape_url: page text of 51 characters   (lines 119-125)
     G |-> 103,
    \* _scrape_url: page text of 50 characters   (lines 119-125)
     H |-> 104,
    \* _scrape_url: page with two content text nodes   (lines 119-125)
     I |-> 105,
    \* google_news_rss: a host only the feed returns   (lines 142-162)
     J |-> 106,
    \* google_news_rss: a host only the feed returns   (lines 142-162)
     K |-> 107]

\* What StealthyFetcher.fetch(url) and the css selections give for each page:
\* the text nodes of the content selectors, the text nodes of body, or a fault
\* ("raise": an Exception; "abort": a fault that is no Exception subclass).
Fetch(url) ==
    LET h == Domain(url)
    IN  IF h = <<Host.A>> THEN
            [kind |-> "page", texts |-> <<<<32, Host.A>> \o Pad(29), <<46, 46>>, Pad(30)>>,
             body |-> <<>>]
        ELSE IF h = <<Host.B>> THEN [kind |-> "raise", texts |-> <<>>, body |-> Msg.Timeout]
        ELSE IF h = <<Host.C>> THEN
            [kind |-> "page", texts |-> <<<<Host.C>> \o Pad(9)>>, body |-> <<>>]
        ELSE IF h = <<Host.D>> THEN
            [kind |-> "page", texts |-> <<>>, body |-> <<<<Host.D>> \o Pad(59)>>]
        ELSE IF h = <<Host.E>> THEN
            [kind |-> "page", texts |-> <<Msg.Error \o <<32, Host.E>> \o Pad(53)>>,
             body |-> <<>>]
        ELSE IF h = <<Host.F>> THEN [kind |-> "abort", texts |-> <<>>, body |-> Msg.Timeout]
        ELSE IF h = <<Host.G>> THEN
            [kind |-> "page", texts |-> <<<<Host.G>> \o Pad(50)>>, body |-> <<>>]
        ELSE IF h = <<Host.H>> THEN
            [kind |-> "page", texts |-> <<<<Host.H>> \o Pad(49)>>, body |-> <<>>]
        \* hosts "i", "j", "k"
        ELSE [kind |-> "page", texts |-> <<h \o Pad(30), Pad(30)>>, body |-> <<>>]

\* [t.strip() for t in texts if t.strip() and len(t.strip()) > 5]
RECURSIVE Cleaned(_)
Cleaned(texts) ==
    IF texts = <<>> THEN <<>>
    ELSE (IF Strip(Head(texts)) # <<>> /\ Len(Strip(Head(texts))) > MinFragment
          THEN <<Strip(Head(texts))>> ELSE <<>>) \o Cleaned(Tail(texts))

StrOutcome(text) == [kind |-> "str", val |-> text]
ExcOutcome(msg) == [kind |-> "exc", val |-> msg]
NoOutcome == [kind |-> "none", val |-> <<>>]

\* _scrape_url(url) run by scrape_url in the pool: the text, the "Error
\* scraping ..." string for an Exception, or the fault itself when it is no
\* Exception
scrape_url(url) ==
    LET page == Fetch(url)
    IN  IF page.kind = "page" THEN
            StrOutcome(PySliceTo(Join(Msg.Nl, Cleaned(
                IF page.texts = <<>> THEN page.body ELSE page.texts)), ScrapeCap))
        ELSE IF page.kind = "raise" THEN
            StrOutcome(Msg.ErrorScraping \o url \o Msg.ColonSp \o page.body)
        ELSE ExcOutcome(page.body)

\* a plausible slip: results collected in order of completion
GatherStore_ByCompletion(results, i, outcome, ndone) ==
    [results EXCEPT ![ndone + 1] = outcome]

\* asyncio.gather: the result of the i-th awaitable goes to position i
GatherStore(results, i, outcome, ndone) == [results EXCEPT ![i] = outcome]

\* a plausible slip: gather without return_exceptions=True
GatherRaises_Propagate(results) == \E i \in 1..Len(results) : results[i].kind = "exc"

\* asyncio.gather(..., return_exceptions=True) never raises for a fault of one
\* awaitable
GatherRaises(results) == FALSE

\* isinstance(t, str) and not t.startswith("Error") and len(t) > 50
IsScraped(outcome) ==
    /\ outcome.kind = "str"
    /\ ~StartsWith(outcome.val, Msg.Error)
    /\ Len(outcome.val) > MinBlockLen

\* the block of the i-th page (i counted from 1)
Block(endpoint, results, sel, urls, outcomes, i) ==
    LET title == Get(results[sel[i] + 1], "title")
    IN  IF endpoint = "ask"
        THEN BlockLit.BlockOpenAsk \o title \o BlockLit.BlockMidAsk \o urls[i] \o BlockLit.BlockEndAsk
             \o PySliceTo(outcomes[i].val, AskExcerpt) \o Msg.Nl
        ELSE BlockLit.BlockOpenIntel \o title \o BlockLit.BlockMidIntel \o urls[i] \o BlockLit.BlockEndIntel
             \o PySliceTo(outcomes[i].val, IntelExcerpt) \o Msg.Nl

\* a plausible slip: the loop stops at the first page that was not scraped
RECURSIVE ScrapedLoop_StopAtFailure(_, _, _, _, _, _)
ScrapedLoop_StopAtFailure(endpoint, results, sel, urls, outcomes, i) ==
    IF i > Len(outcomes) \/ ~IsScraped(outcomes[i]) THEN <<>>
    ELSE Block(endpoint, results, sel, urls, outcomes, i)
         \o ScrapedLoop_StopAtFailure(endpoint, results, sel, urls, outcomes, i + 1)

\* for i, page_text in enumerate(pages): if ...: scraped_content += block
RECURSIVE ScrapedLoop(_, _, _, _, _, _)
ScrapedLoop(endpoint, results, sel, urls, outcomes, i) ==
    IF i > Len(outcomes) THEN <<>>
    ELSE (IF IsScraped(outcomes[i])
          THEN Block(endpoint, results, sel, urls, outcomes, i) ELSE <<>>)
         \o ScrapedLoop(endpoint, results, sel, urls, outcomes, i + 1)

\* a plausible slip: the digest of every candidate, without the [:10]
Digest_Uncapped(results) ==
    Join(Msg.Nl, [i \in 1..Len(results) |->
        CtxLit.Dash \o Get(results[i], "title") \o Msg.ColonSp \o Get(results[i], "snippet")])

\* "\n".join(f"- {title}: {snippet}" for r in all_results[:10])
Digest(results) ==
    LET first == PySliceTo(results, DigestMax)
    IN  Join(Msg.Nl, [i \in 1..Len(first) |->
            CtxLit.Dash \o Get(first[i], "title") \o Msg.ColonSp \o Get(first[i], "snippet")])

\* context of ask, compress_input of api_intel
Assemble(endpoint, query, price, results, scraped_content) ==
    IF endpoint = "ask"
    THEN price \o CtxLit.SummaryHead \o Digest(results)
         \o (IF scraped_content # <<>> THEN CtxLit.ScrapedHead \o scraped_content ELSE <<>>)
    ELSE CtxLit.Question \o query \o CtxLit.Headlines \o Digest(results)
         \o (IF scraped_content # <<>> THEN CtxLit.ScrapedPages \o scraped_content ELSE <<>>)

\* del d[key]
Del(d, key) == [k \in DOMAIN d \ {key} |-> d[k]]

\* a plausible slip: the expiry is never looked at
check_session_NoExpiry(token, map, t) ==
    IF token = 0 \/ token \notin DOMAIN map
    THEN [ok |-> FALSE, map |-> map]
    ELSE [ok |-> TRUE, map |-> map]

\* check_session(token) at time t: the result, and _sessions after the call.
\* Token 0 stands for the cookie that is None or empty.
check_session(token, map, t) ==
    IF token = 0 \/ token \notin DOMAIN map
    THEN [ok |-> FALSE, map |-> map]
    ELSE IF t > map[token]
         THEN [ok |-> FALSE, map |-> Del(map, token)]
         ELSE [ok |-> TRUE, map |-> map]

\* a plausible slip: pop(0) for pop(): the entry just inserted is dropped
log_activity_PopNewest(log, action, detail, status) ==
    LET grown == <<[action |-> action, detail |-> PySliceTo(detail, DetailMax),
                    status |-> status]>> \o log
    IN  IF Len(grown) > MAX_LOG THEN Tail(grown) ELSE grown

\* log_activity(action, detail, status): newest first, at most MAX_LOG entries
log_activity(log, action, detail, status) ==
    LET grown == <<[action |-> action, detail |-> PySliceTo(detail, DetailMax),
                    status |-> status]>> \o log
    IN  IF Len(grown) > MAX_LOG THEN SubSeq(grown, 1, Len(grown) - 1) ELSE grown

\* --------------------------------------------- truncation on its own inputs
\* code points of 1, 2, 3 and 4 UTF-8 bytes: "a", e-acute, the euro sign, U+1F600
TextChars == {97, 233, 8364, 128512}

RECURSIVE SeqsUpTo(_, _)
SeqsUpTo(S, n) ==
    IF n = 0 THEN {<<>>}
    ELSE LET shorter == SeqsUpTo(S, n - 1)
         IN  shorter \cup {Append(s, c) : s \in shorter, c \in S}

TruncIdle ==
    /\ t_pc = "idle" /\ t_text = <<>> /\ t_max = 0 /\ t_out = <<>> /\ t_out2 = <<>>

SelIdle ==
    /\ s_pc = "idle" /\ s_reply = <<>> /\ s_n = 0 /\ s_picked = <<>> /\ s_urls = <<>>

NoResp == [status |-> 0, ok |-> "none", text |-> <<>>, sources |-> <<>>, count |-> 0]

\* the JSON types of the body, of its "query" and of its "max_bytes" when
\* they are what the handler expects
WellTyped == <<"object", "str", "number">>

\* the request before it arrives
NoReq == [key_ok |-> FALSE, json_ok |-> FALSE, query |-> <<>>, mode |-> "none",
          url |-> <<>>, has_max |-> FALSE, maxv |-> 0, kinds |-> WellTyped]

\* the external calls of one request: get_crypto_price, ddg_search,
\* google_news_rss, the two chutes_chat calls, and scrape_url per selected URL
NoCalls == [price |-> 0, ddg |-> 0, news |-> 0, pick |-> 0, synth |-> 0, scrape |-> <<>>]

NoneEnded == [price |-> "no", ddg |-> "no", news |-> "no", pick |-> "no", synth |-> "no"]

\* no handler is running: no local of ask or api_intel holds anything
LocalsIdle ==
    /\ pc = "idle" /\ ep = "none" /\ q = <<>> /\ coin = <<>> /\ mode = "none" /\ max_bytes = 0
    /\ price_info = <<>> /\ ddg_st = "none" /\ news_st = "none"
    /\ ddg_results = <<>> /\ news_results = <<>> /\ all_results = <<>>
    /\ picked = <<>> /\ scrape_urls = <<>> /\ task_st = <<>> /\ pages = <<>>
    /\ order = <<>> /\ scraped = <<>> /\ context = <<>> /\ resp = NoResp
    /\ err = "none"
    /\ req = NoReq /\ started = NoCalls /\ ended = NoneEnded

\* no request has arrived: the state after the module is loaded
ReqIdle == LocalsIdle /\ activity_log = <<>>

MergeIdle ==
    /\ m_pc = "idle" /\ m_ddg = <<>> /\ m_news = <<>> /\ m_all = <<>>

\* no request is using the pool
\* the light request before it arrives: its kind, where its handler is, and
\* whether every worker was executing a fetch when its response was sent
NoLight == [ep |-> "none", phase |-> "idle", full |-> FALSE]

PoolIdle ==
    /\ pool_phase = <<>> /\ pool_left = <<>> /\ pool_queue = <<>> /\ pool_running = {}
    /\ light = NoLight

\* no check_session call has been made; token 0 is the absent cookie
NoVerdict == [token |-> 0, at |-> 0, ok |-> FALSE]

\* the state after the module is loaded: _sessions = {}, no log driver call,
\* and the clock at the origin from which the model counts the seconds
AdminIdle ==
    /\ log_calls = 0 /\ sessions = <<>> /\ now = 0 /\ issued = <<>>
    /\ revoked = [logout |-> {}, expired |-> {}] /\ verdict = NoVerdict

TruncInit ==
    /\ SelIdle /\ MergeIdle /\ ReqIdle /\ PoolIdle /\ AdminIdle
    /\ t_pc = "call"
    /\ t_text \in SeqsUpTo(TextChars, MaxTextLen)
    /\ t_max \in (0 - MaxNegBytes)..MaxBytes
    /\ t_out = <<>>
    /\ t_out2 = <<>>

\* facts = _truncate_utf8(facts, max_bytes)
TruncCall ==
    /\ t_pc = "call"
    /\ t_out' = truncate_utf8(t_text, t_max)
    /\ t_pc' = "once"
    /\ UNCHANGED <<t_text, t_max, t_out2, selVars, mergeVars, reqVars, poolVars, adminVars>>

\* the result truncated again with the same budget
TruncAgain ==
    /\ t_pc = "once"
    /\ t_out2' = truncate_utf8(t_out, t_max)
    /\ t_pc' = "twice"
    /\ UNCHANGED <<t_text, t_max, t_out, selVars, mergeVars, reqVars, poolVars, adminVars>>

SpecTrunc == TruncInit /\ [][TruncCall \/ TruncAgain]_vars

\* ------------------------------------------- page selection on its own inputs
\* the pieces a reply is put together from: "0,"  "2,2,"  "15,"  "x"  "1"
ReplyPieces == {<<48, 44>>, <<50, 44, 50, 44>>, <<49, 53, 44>>, <<120>>, <<49>>}

Replies == {Concat(ps) : ps \in SeqsUpTo(ReplyPieces, MaxReplyPieces)}

SelInit ==
    /\ TruncIdle /\ MergeIdle /\ ReqIdle /\ PoolIdle /\ AdminIdle
    /\ s_pc = "parse"
    /\ s_reply \in Replies
    /\ s_n \in 0..MaxCand
    /\ s_picked = <<>>
    /\ s_urls = <<>>

\* n candidates, each of its own host: "A", "B", ...
SelCandidates(n) == [k \in 1..n |-> DdgResult(UrlOf(64 + k))]

\* server.py 311-323 (ask), 486-495 (api_intel)
SelParse ==
    /\ s_pc = "parse"
    /\ s_picked' = ParsePicked(s_reply, s_n)
    /\ s_urls' = ScrapeUrls(SelCandidates(s_n), ParsePicked(s_reply, s_n))
    /\ s_pc' = "picked"
    /\ UNCHANGED <<s_reply, s_n, truncVars, mergeVars, reqVars, poolVars, adminVars>>

SpecSelect == SelInit /\ [][SelParse]_vars

\* ----------------------------------------------------- merge on its own inputs
\* "http://a/x"  "https://a/y"  "http://b"  "ftp://a/z"  "http:a"
UrlAx == <<104, 116, 116, 112, 58, 47, 47, 97, 47, 120>>
UrlAy == <<104, 116, 116, 112, 115, 58, 47, 47, 97, 47, 121>>
UrlB == <<104, 116, 116, 112, 58, 47, 47, 98>>
UrlFtpA == <<102, 116, 112, 58, 47, 47, 97, 47, 122>>
UrlNoHost == <<104, 116, 116, 112, 58, 97>>

SearchUrls == {UrlAx, UrlAy, UrlB, UrlFtpA, UrlNoHost}

MergeInit ==
    /\ TruncIdle /\ SelIdle /\ ReqIdle /\ PoolIdle /\ AdminIdle
    /\ m_pc = "merge"
    /\ m_ddg \in SeqsUpTo({DdgResult(u) : u \in SearchUrls}, MaxDdg)
    /\ m_news \in SeqsUpTo({NewsResult(u) : u \in SearchUrls}, MaxNews)
    /\ m_all = <<>>

\* server.py 278-288 (ask), 460-470 (api_intel)
MergeStep ==
    /\ m_pc = "merge"
    /\ m_all' = MergeDedup(m_ddg, m_news)
    /\ m_pc' = "merged"
    /\ UNCHANGED <<m_ddg, m_news, truncVars, selVars, reqVars, poolVars, adminVars>>

SpecMerge == MergeInit /\ [][MergeStep]_vars

\* ------------------------------------------------ one request, step by step
\* Elapsed times and timestamps (t0, elapsed, "t", the "time" of a log entry)
\* are left out: elapsed is shown as 0.0 in the log details.

\* "BTC price"  "cats"
Q_BtcPrice == <<66, 84, 67, 32, 112, 114, 105, 99, 101>>
Q_Cats == <<99, 97, 116, 115>>
\* the replies of the two LLM calls
Reply ==
    \* "ok"   (lines 510-515)
    [AOk |-> <<111, 107>>,
    \* a text of 14 UTF-8 bytes in 6 characters (a, e-acute, euro, euro, U+1F600, a)   (lines 510-515)
     AMulti |-> <<97, 233, 8364, 8364, 128512, 97>>,
    \* "x"   (line 309)
     RX |-> <<120>>,
    \* "0,1,2,3,4,5"   (line 309)
     RSix |-> <<48, 44, 49, 44, 50, 44, 51, 44, 52, 44, 53>>,
    \* "7,1,0,6,5"   (line 309)
     RMixed |-> <<55, 44, 49, 44, 48, 44, 54, 44, 53>>,
    \* "4,4,1"   (line 309)
     RDup |-> <<52, 44, 52, 44, 49>>]
\* 97,000.00 USD and -1.23 % as numbers of hundredths
PriceUsdHundredths == 9700000
ChangeHundredths == -123

AskQueries == {Q_BtcPrice, Q_Cats}

\* the JSON bodies of the /api/intel requests: has_max says whether the body
\* has a max_bytes field
IntelRequests ==
    {[key_ok |-> FALSE, json_ok |-> TRUE, query |-> Q_Cats, mode |-> "search",
      url |-> <<>>, has_max |-> FALSE, maxv |-> 0, kinds |-> WellTyped],
     [key_ok |-> FALSE, json_ok |-> FALSE, query |-> <<>>, mode |-> "search",
      url |-> <<>>, has_max |-> FALSE, maxv |-> 0, kinds |-> WellTyped],
     [key_ok |-> FALSE, json_ok |-> TRUE, query |-> <<>>, mode |-> "browse",
      url |-> <<>>, has_max |-> FALSE, maxv |-> 0, kinds |-> WellTyped],
     [key_ok |-> TRUE, json_ok |-> FALSE, query |-> <<>>, mode |-> "search",
      url |-> <<>>, has_max |-> FALSE, maxv |-> 0, kinds |-> WellTyped]}
    \cup {[key_ok |-> TRUE, json_ok |-> TRUE, query |-> qq, mode |-> "search",
           url |-> <<>>, has_max |-> hm[1], maxv |-> hm[2], kinds |-> WellTyped] :
              qq \in {<<>>, <<32>> \o Q_BtcPrice, Q_Cats},
              hm \in {<<FALSE, 0>>, <<TRUE, 10>>, <<TRUE, -1>>, <<TRUE, 7000>>}}
    \cup {[key_ok |-> TRUE, json_ok |-> TRUE, query |-> qq, mode |-> "price",
           url |-> <<>>, has_max |-> hm[1], maxv |-> hm[2], kinds |-> WellTyped] :
              qq \in {<<>>, Q_BtcPrice, Q_Cats},
              hm \in {<<FALSE, 0>>, <<TRUE, 10>>}}
    \cup {[key_ok |-> TRUE, json_ok |-> TRUE, query |-> Q_Cats, mode |-> "browse",
           url |-> u, has_max |-> hm[1], maxv |-> hm[2], kinds |-> WellTyped] :
              u \in {<<>>, UrlOf(Host.A), UrlOf(Host.B), UrlOf(Host.C), UrlOf(Host.F)},
              hm \in {<<FALSE, 0>>, <<TRUE, 10>>}}
    \cup {[key_ok |-> TRUE, json_ok |-> TRUE,
           query |-> IF k[2] = "str" THEN Q_Cats ELSE <<>>, mode |-> "search",
           url |-> <<>>, has_max |-> TRUE, maxv |-> 0, kinds |-> k] :
              k \in {<<"array", "str", "number">>, <<"object", "number", "number">>,
                     <<"object", "null", "number">>, <<"object", "str", "str">>,
                     <<"object", "str", "null">>}}

\* what get_crypto_price gives: the price, {"error": ...} for an unknown coin,
\* a price entry without "usd", or an exception (timeout, HTTP error)
PriceOutcomes == {"ok", "notfound", "null", "raise"}

\* what _ddg_search(q, 10) gives: a list of results or an exception of
\* StealthyFetcher.fetch, which _ddg_search does not catch
DdgOutcomes ==
    {[kind |-> "list", val |-> <<>>],
     [kind |-> "list",
      val |-> <<DdgResult(UrlOf(Host.A)), DdgResult(UrlOf(Host.B)),
                DdgResult(UrlOf(Host.D)), DdgResult(UrlOf(Host.G)),
                DdgResult(UrlOf(Host.I)), DdgResult(UrlOf(Host.C))>>],
     [kind |-> "raise", val |-> <<>>]}

\* what the feed request of google_news_rss(q, 8) gives: the parsed items, or
\* a fault (network error or timeout, non-2xx status, XML parse error)
NewsOutcomes ==
    {[kind |-> "list", val |-> <<>>],
     [kind |-> "list",
      val |-> <<NewsResult(UrlOf(Host.A)), NewsResult(UrlOf(Host.E)),
                NewsResult(UrlOf(Host.F)), NewsResult(UrlOf(Host.H)),
                NewsResult(UrlOf(Host.J)), NewsResult(UrlOf(Host.K))>>],
     [kind |-> "raise", val |-> <<>>]}

\* a plausible slip: google_news_rss without its try/except
google_news_rss_NoCatch(fetched) == fetched

\* google_news_rss: the items, [] after any fault (except Exception: return [])
google_news_rss(fetched) ==
    IF fetched.kind = "raise" THEN [kind |-> "list", val |-> <<>>] ELSE fetched

\* what chutes_chat gives for the selection and for the synthesis
PickOutcomes ==
    {[kind |-> "text", val |-> r] : r \in {Reply.RX, Reply.RSix, Reply.RMixed, Reply.RDup}}
    \cup {[kind |-> "raise", val |-> <<>>]}

SynthOutcomes ==
    {[kind |-> "text", val |-> r] : r \in {Reply.AOk, Reply.AMulti}}
    \cup {[kind |-> "raise", val |-> <<>>]}

CryptoWords(endpoint) ==
    {Word.price, Word.btc, Word.bitcoin, Word.eth, Word.ethereum, Word.sol, Word.solana}
    \cup (IF endpoint = "ask" THEN {Word.crypto} ELSE {})

\* any(w in q_lower for w in [...])
IsCryptoQuery(endpoint, query) ==
    \E w \in CryptoWords(endpoint) : Contains(Lower(query), w)

\* a plausible slip: the solana test before the ethereum test
CoinOf_SolFirst(query) ==
    LET q_lower == Lower(query)
    IN  IF Contains(q_lower, Word.sol) \/ Contains(q_lower, Word.solana) THEN Word.solana
        ELSE IF Contains(q_lower, Word.eth) \/ Contains(q_lower, Word.ethereum) THEN Word.ethereum
        ELSE Word.bitcoin

\* coin of the price step of ask and of api_intel in search mode
CoinOf(query) ==
    LET q_lower == Lower(query)
    IN  IF Contains(q_lower, Word.eth) \/ Contains(q_lower, Word.ethereum) THEN Word.ethereum
        ELSE IF Contains(q_lower, Word.sol) \/ Contains(q_lower, Word.solana) THEN Word.solana
        ELSE Word.bitcoin

\* coin of api_intel in price mode
PriceModeCoin(query) ==
    LET c == IF query # <<>> THEN query ELSE Word.bitcoin
        q_lower == Lower(c)
    IN  IF Contains(q_lower, Word.eth) THEN Word.ethereum
        ELSE IF Contains(q_lower, Word.sol) THEN Word.solana
        ELSE IF Contains(q_lower, Word.btc) \/ Contains(q_lower, Word.bit) THEN Word.bitcoin
        ELSE c

\* f"{coin} ${price:,.2f} ({change:+.2f}% 24h) (coingecko)"
IntelPriceLine(c) ==
    c \o PriceLit.Dollar \o Fixed2(PriceUsdHundredths, TRUE, FALSE) \o PriceLit.SpParen
      \o Fixed2(ChangeHundredths, FALSE, TRUE) \o PriceLit.Pct24h

\* price_info of ask, price_prefix of api_intel, after the price lookup: the
\* line when the lookup gave a price, "" when it gave no price or when the
\* lookup or the formatting raised (except Exception: pass)
PriceInfo(endpoint, c, outcome) ==
    IF outcome # "ok" THEN <<>>
    ELSE IF endpoint = "ask"
    THEN Msg.LiveData \o c \o PriceLit.PriceIs \o Fixed2(PriceUsdHundredths, TRUE, FALSE)
         \o PriceLit.Usd24h \o Fixed2(ChangeHundredths, FALSE, FALSE) \o PriceLit.PctEnd
    ELSE IntelPriceLine(c) \o PriceLit.PrefixSep

\* the mode as text
ModeStr(m) ==
    IF m = "price" THEN Word.price
    ELSE IF m = "browse" THEN <<98, 114, 111, 119, 115, 101>>
    ELSE <<115, 101, 97, 114, 99, 104>>

\* the workers of _executor that are running a fetch
Busy ==
    (IF ddg_st = "running" THEN 1 ELSE 0)
    + Cardinality({i \in 1..Len(task_st) : task_st[i] = "running"})

\* the handler's except Exception: log the error, answer 500
Failed(call, e) ==
    /\ err' = call
    /\ pc' = "done"
    /\ activity_log' =
           IF ep = "ask"
           THEN log_activity(activity_log, "ask", q \o Msg.ColonSp \o e, "error")
           ELSE log_activity(activity_log, "intel",
                             ModeStr(mode) \o <<58>> \o q \o Msg.ColonSp \o e, "error")
    /\ resp' = [status |-> 500, ok |-> IF ep = "ask" THEN "none" ELSE "false",
                text |-> IF ep = "ask" THEN e ELSE PySliceTo(e, ErrMax),
                sources |-> <<>>, count |-> 0]

\* both searches leave: ddg_search goes to the pool, the feed request is sent
StartSearch ==
    /\ pc' = "search"
    /\ ddg_st' = "queued"
    /\ news_st' = "running"
    /\ started' = [started EXCEPT !.ddg = @ + 1, !.news = @ + 1]

\* GET /ask?q=query: up to the first await
AskRequestOf(query) ==
    /\ pc = "idle"
    /\ ep' = "ask"
    /\ q' = query
    /\ req' = [NoReq EXCEPT !.key_ok = TRUE, !.json_ok = TRUE, !.query = query]
    /\ IF IsCryptoQuery("ask", query)
       THEN /\ coin' = CoinOf(query)
            /\ pc' = "price"
            /\ started' = [started EXCEPT !.price = @ + 1]
            /\ UNCHANGED <<ddg_st, news_st>>
       ELSE /\ coin' = coin
            /\ StartSearch
    /\ UNCHANGED <<mode, max_bytes, price_info, ddg_results, news_results,
                   all_results, picked, scrape_urls, task_st, pages, order,
                   scraped, context, resp, err, activity_log, ended>>
    /\ UNCHANGED <<truncVars, selVars, mergeVars, poolVars, adminVars>>

AskRequest == \E query \in AskQueries : AskRequestOf(query)

Reject(status, reason) ==
    /\ resp' = [status |-> status, ok |-> "false", text |-> reason,
                sources |-> <<>>, count |-> 0]
    /\ pc' = "done"

\* a plausible slip: the body is read and checked before the API key
Validate_BodyFirst(r) ==
    IF ~r.json_ok THEN [status |-> 400, reason |-> Msg.InvalidJson]
    ELSE IF Strip(r.query) = <<>> /\ r.mode # "price"
    THEN [status |-> 400, reason |-> Msg.MissingQuery]
    ELSE IF ~r.key_ok THEN [status |-> 401, reason |-> Msg.Unauthorized]
    ELSE IF r.mode = "browse" /\ r.url = <<>>
    THEN [status |-> 400, reason |-> Msg.MissingUrl]
    ELSE [status |-> 200, reason |-> <<>>]

\* the checks of api_intel in the order the handler makes them: the API key,
\* the JSON body, the query, the url of browse mode; status 200 when all pass
Validate(r) ==
    IF ~r.key_ok THEN [status |-> 401, reason |-> Msg.Unauthorized]
    ELSE IF ~r.json_ok THEN [status |-> 400, reason |-> Msg.InvalidJson]
    ELSE IF Strip(r.query) = <<>> /\ r.mode # "price"
    THEN [status |-> 400, reason |-> Msg.MissingQuery]
    ELSE IF r.mode = "browse" /\ r.url = <<>>
    THEN [status |-> 400, reason |-> Msg.MissingUrl]
    ELSE [status |-> 200, reason |-> <<>>]

\* the exception the field reads of api_intel raise, outside any try:
\* body.get of a body that is no object and .strip() of a query that is no
\* string (AttributeError), min() of a max_bytes that is no number (TypeError)
FieldFault(r) ==
    IF r.kinds[1] # "object" \/ r.kinds[2] # "str" THEN "AttributeError"
    ELSE IF r.has_max /\ r.kinds[3] # "number" THEN "TypeError"
    ELSE "none"

\* POST /api/intel with the headers and body r: up to the first await
IntelRequestOf(r) ==
    /\ pc = "idle"
    /\ LET query == Strip(r.query)
            mb == Min(IF r.has_max THEN r.maxv ELSE DefaultMaxBytes, MaxBytesCeiling)
            v == Validate(r)
        IN
        /\ ep' = "intel"
        /\ req' = r
        /\ IF r.key_ok /\ r.json_ok /\ FieldFault(r) = "none"
           THEN q' = query /\ mode' = r.mode /\ max_bytes' = mb
           ELSE UNCHANGED <<q, mode, max_bytes>>
        /\ IF r.key_ok /\ r.json_ok /\ FieldFault(r) # "none" THEN
               \* the exception leaves the handler: the server answers 500
               \* itself, without the handler's JSON body
               /\ resp' = [status |-> 500, ok |-> "none", text |-> <<>>,
                           sources |-> <<>>, count |-> 0]
               /\ err' = "fields"
               /\ pc' = "done"
               /\ UNCHANGED <<coin, ddg_st, news_st, scrape_urls, task_st, pages, started>>
           ELSE IF v.status # 200 THEN
               /\ Reject(v.status, v.reason)
               /\ UNCHANGED <<err, coin, ddg_st, news_st, scrape_urls, task_st, pages, started>>
           ELSE IF r.mode = "price" THEN
               /\ coin' = PriceModeCoin(query)
               /\ pc' = "i_price"
               /\ started' = [started EXCEPT !.price = @ + 1]
               /\ UNCHANGED <<err, resp, ddg_st, news_st, scrape_urls, task_st, pages>>
           ELSE IF r.mode = "browse" THEN
               /\ pc' = "browse_scrape"
               /\ scrape_urls' = <<r.url>>
               /\ task_st' = <<"queued">>
               /\ pages' = <<NoOutcome>>
               /\ started' = [started EXCEPT !.scrape = <<1>>]
               /\ UNCHANGED <<err, resp, coin, ddg_st, news_st>>
           ELSE IF IsCryptoQuery("intel", query) THEN
               /\ coin' = CoinOf(query)
               /\ pc' = "price"
               /\ started' = [started EXCEPT !.price = @ + 1]
               /\ UNCHANGED <<err, resp, ddg_st, news_st, scrape_urls, task_st, pages>>
           ELSE
               /\ StartSearch
               /\ UNCHANGED <<err, resp, coin, scrape_urls, task_st, pages>>
    /\ UNCHANGED <<price_info, ddg_results, news_results, all_results, picked,
                   order, scraped, context, activity_log, ended>>
    /\ UNCHANGED <<truncVars, selVars, mergeVars, poolVars, adminVars>>

IntelRequest == \E r \in IntelRequests : IntelRequestOf(r)

\* how the price lookup ended: a price or {"error": ...} is an answer, a price
\* entry without "usd" or an exception is a fault
PriceEnded(outcome) == IF outcome \in {"ok", "notfound"} THEN "ok" ELSE "fault"

\* await get_crypto_price(coin) returns in the price step of ask and of
\* api_intel in search mode; the searches start
PriceDone ==
    /\ pc = "price"
    /\ \E outcome \in PriceOutcomes :
        /\ price_info' = PriceInfo(ep, coin, outcome)
        /\ ended' = [ended EXCEPT !.price = PriceEnded(outcome)]
    /\ StartSearch
    /\ UNCHANGED <<ep, q, coin, mode, max_bytes, ddg_results, news_results,
                   all_results, picked, scrape_urls, task_st, pages, order,
                   scraped, context, resp, err, activity_log, req>>
    /\ UNCHANGED <<truncVars, selVars, mergeVars, poolVars, adminVars>>

\* await get_crypto_price(coin) returns in api_intel, price mode
IntelPriceDone ==
    /\ pc = "i_price"
    /\ \E outcome \in PriceOutcomes :
        /\ ended' = [ended EXCEPT !.price = PriceEnded(outcome)]
        /\ IF outcome = "raise" THEN Failed("price", Msg.Timeout)
           ELSE IF outcome = "null" THEN Failed("price", Msg.TypeError)
           ELSE
               /\ resp' = [status |-> 200, ok |-> "true",
                           text |-> IF outcome = "ok" THEN IntelPriceLine(coin)
                                    ELSE PriceLit.PriceNotFound \o coin,
                           sources |-> <<Msg.Coingecko>>, count |-> 0]
               /\ activity_log' = log_activity(activity_log, "intel", LogLit.PriceTag \o coin, "ok")
               /\ pc' = "done"
               /\ err' = err
    /\ UNCHANGED <<ep, q, coin, mode, max_bytes, price_info, ddg_st, news_st,
                   ddg_results, news_results, all_results, picked, scrape_urls,
                   task_st, pages, order, scraped, context, req, started>>
    /\ UNCHANGED <<truncVars, selVars, mergeVars, poolVars, adminVars>>

\* a free worker of the pool takes _ddg_search
DdgStart ==
    /\ pc = "search"
    /\ ddg_st = "queued"
    /\ Busy < PoolWorkers
    /\ ddg_st' = "running"
    /\ UNCHANGED <<pc, ep, q, coin, mode, max_bytes, price_info, news_st,
                   ddg_results, news_results, all_results, picked, scrape_urls,
                   task_st, pages, order, scraped, context, resp, err, activity_log,
                   req, started, ended>>
    /\ UNCHANGED <<truncVars, selVars, mergeVars, poolVars, adminVars>>

\* _ddg_search returns or raises; gather hands an exception to the handler
\* at once
DdgDone ==
    /\ pc = "search"
    /\ ddg_st = "running"
    /\ ddg_st' = "done"
    /\ order' = Append(order, 1)
    /\ \E out \in DdgOutcomes :
        IF out.kind = "raise"
        THEN /\ Failed("ddg", Msg.Timeout)
             /\ ended' = [ended EXCEPT !.ddg = "fault"]
             /\ UNCHANGED ddg_results
        ELSE /\ ddg_results' = out.val
             /\ ended' = [ended EXCEPT !.ddg = "ok"]
             /\ UNCHANGED <<pc, resp, err, activity_log>>
    /\ UNCHANGED <<ep, q, coin, mode, max_bytes, price_info, news_st,
                   news_results, all_results, picked, scrape_urls,
                   task_st, pages, scraped, context, req, started>>
    /\ UNCHANGED <<truncVars, selVars, mergeVars, poolVars, adminVars>>

\* google_news_rss returns
NewsDone ==
    /\ pc = "search"
    /\ news_st = "running"
    /\ news_st' = "done"
    /\ order' = Append(order, 2)
    /\ \E out \in NewsOutcomes :
        LET result == google_news_rss(out)
        IN  /\ ended' = [ended EXCEPT !.news = IF out.kind = "raise" THEN "fault" ELSE "ok"]
            /\ IF result.kind = "raise"
               THEN Failed("news", Msg.Timeout) /\ UNCHANGED news_results
               ELSE /\ news_results' = result.val
                    /\ UNCHANGED <<pc, resp, err, activity_log>>
    /\ UNCHANGED <<ep, q, coin, mode, max_bytes, price_info, ddg_st,
                   ddg_results, all_results, picked, scrape_urls,
                   task_st, pages, scraped, context, req, started>>
    /\ UNCHANGED <<truncVars, selVars, mergeVars, poolVars, adminVars>>

\* a plausible slip: the results of gather taken in order of completion
GatherPair_ByCompletion(results, completion) ==
    [i \in 1..Len(results) |-> results[completion[i]]]

\* ddg_results, news_results = await asyncio.gather(ddg_task, news_task): the
\* results by the position of the awaitable
GatherPair(results, completion) == results

\* a plausible slip: the no-results answer of ask without the price line
NoResultsAnswer_NoPrice(price, query) == Msg.NoSearchResults \o query

\* answer = price_info + f"No search results found for: {q}" if price_info
\*          else f"No search results found for: {q}"
NoResultsAnswer(price, query) ==
    IF price # <<>> THEN price \o Msg.NoSearchResults \o query
    ELSE Msg.NoSearchResults \o query

\* the handler resumes after asyncio.gather(ddg_task, news_task): merge, the
\* no-results answer, or the selection call
SearchJoin ==
    /\ pc = "search"
    /\ ddg_st = "done" /\ news_st = "done"
    /\ LET pair == GatherPair(<<ddg_results, news_results>>, order)
           merged == MergeDedup(pair[1], pair[2])
       IN  /\ all_results' = merged
           /\ IF merged = <<>> THEN
                  /\ pc' = "done"
                  /\ IF ep = "ask" THEN
                         /\ resp' = [status |-> 200, ok |-> "none",
                                     text |-> NoResultsAnswer(price_info, q),
                                     sources |-> <<>>, count |-> 0]
                         /\ activity_log' = log_activity(activity_log, "ask",
                                                         q \o LogLit.NoResultsLog, "warn")
                     ELSE
                         /\ resp' = [status |-> 200, ok |-> "true",
                                     text |-> Msg.NoResults \o q,
                                     sources |-> <<>>, count |-> 0]
                         /\ UNCHANGED activity_log
                  /\ UNCHANGED started
              ELSE
                  /\ pc' = "pick"
                  /\ started' = [started EXCEPT !.pick = @ + 1]
                  /\ UNCHANGED <<resp, activity_log>>
    /\ UNCHANGED <<ep, q, coin, mode, max_bytes, price_info, ddg_st, news_st,
                   ddg_results, news_results, picked, scrape_urls,
                   task_st, pages, order, scraped, context, err, req, ended>>
    /\ UNCHANGED <<truncVars, selVars, mergeVars, poolVars, adminVars>>

\* await chutes_chat(pick_prompt) returns: parse the indices, schedule the
\* scrapes
PickDone ==
    /\ pc = "pick"
    /\ \E out \in PickOutcomes :
        IF out.kind = "raise" THEN
            /\ Failed("pick", Msg.Timeout)
            /\ ended' = [ended EXCEPT !.pick = "fault"]
            /\ UNCHANGED <<picked, scrape_urls, task_st, pages, order, started>>
        ELSE
            LET sel == ParsePicked(out.val, Len(all_results))
            IN  /\ picked' = sel
                /\ scrape_urls' = ScrapeUrls(all_results, sel)
                /\ task_st' = [i \in 1..Len(sel) |-> "queued"]
                /\ pages' = [i \in 1..Len(sel) |-> NoOutcome]
                /\ order' = <<>>
                /\ started' = [started EXCEPT !.scrape = [i \in 1..Len(sel) |-> 1]]
                /\ ended' = [ended EXCEPT !.pick = "ok"]
                /\ activity_log' =
                       IF ep = "ask"
                       THEN log_activity(activity_log, "ask",
                                LogLit.AiPicked \o Str(Len(sel)) \o LogLit.PagesToScrape, "ok")
                       ELSE activity_log
                /\ pc' = "scrape"
                /\ UNCHANGED <<resp, err>>
    /\ UNCHANGED <<ep, q, coin, mode, max_bytes, price_info, ddg_st, news_st,
                   ddg_results, news_results, all_results, scraped, context,
                   req>>
    /\ UNCHANGED <<truncVars, selVars, mergeVars, poolVars, adminVars>>

\* a free worker of the pool takes the oldest queued _scrape_url
ScrapeStart ==
    /\ pc \in {"scrape", "browse_scrape"}
    /\ \E i \in 1..Len(task_st) :
        /\ task_st[i] = "queued"
        /\ \A j \in 1..(i - 1) : task_st[j] # "queued"
        /\ Busy < PoolWorkers
        /\ task_st' = [task_st EXCEPT ![i] = "running"]
    /\ UNCHANGED <<pc, ep, q, coin, mode, max_bytes, price_info, ddg_st, news_st,
                   ddg_results, news_results, all_results, picked, scrape_urls,
                   pages, order, scraped, context, resp, err, activity_log,
                   req, started, ended>>
    /\ UNCHANGED <<truncVars, selVars, mergeVars, poolVars, adminVars>>

\* a plausible slip: a scrape that ended in an error is submitted again
AfterFetch_Retry(outcome) ==
    IF outcome.kind = "exc" \/ StartsWith(outcome.val, Msg.Error) THEN "queued" ELSE "done"

\* the state of a scrape task once _scrape_url has returned or raised: the
\* task is over, whatever the outcome
AfterFetch(outcome) == "done"

\* one _scrape_url finishes, in any order among the running ones
ScrapeDone ==
    /\ pc \in {"scrape", "browse_scrape"}
    /\ \E i \in 1..Len(task_st) :
        LET outcome == scrape_url(scrape_urls[i])
            st == AfterFetch(outcome)
        IN  /\ task_st[i] = "running"
            /\ task_st' = [task_st EXCEPT ![i] = st]
            /\ pages' = GatherStore(pages, i, outcome, Len(order))
            /\ order' = Append(order, i)
            /\ started' = IF st = "queued"
                          THEN [started EXCEPT !.scrape[i] = @ + 1] ELSE started
    /\ UNCHANGED <<pc, ep, q, coin, mode, max_bytes, price_info, ddg_st, news_st,
                   ddg_results, news_results, all_results, picked, scrape_urls,
                   scraped, context, resp, err, activity_log, req, ended>>
    /\ UNCHANGED <<truncVars, selVars, mergeVars, poolVars, adminVars>>

\* a plausible slip: asyncio.wait(..., return_when=FIRST_COMPLETED) in place of
\* gather, the handler resumes at the first finished scrape
AllDone_FirstCompleted == \E i \in 1..Len(task_st) : task_st[i] = "done"

\* asyncio.gather resumes the handler when every task has returned or raised
AllDone == \A i \in 1..Len(task_st) : task_st[i] = "done"

\* the handler resumes after asyncio.gather(*scrape_tasks,
\* return_exceptions=True): the scraped blocks, the context, the synthesis call
ScrapeJoin ==
    /\ pc = "scrape"
    /\ AllDone
    /\ order' = <<>>
    /\ IF GatherRaises(pages) THEN
           /\ Failed("scrape", Msg.Timeout)
           /\ UNCHANGED <<scraped, context, started>>
       ELSE
           LET blocks == ScrapedLoop(ep, all_results, picked, scrape_urls, pages, 1)
           IN  /\ scraped' = blocks
               /\ context' = Assemble(ep, q, price_info, all_results, blocks)
               /\ pc' = "synth"
               /\ started' = [started EXCEPT !.synth = @ + 1]
               /\ UNCHANGED <<resp, err, activity_log>>
    /\ UNCHANGED <<ep, q, coin, mode, max_bytes, price_info, ddg_st, news_st,
                   ddg_results, news_results, all_results, picked, scrape_urls,
                   task_st, pages, req, ended>>
    /\ UNCHANGED <<truncVars, selVars, mergeVars, poolVars, adminVars>>

\* a plausible slip: only the pages whose scrape gave a block are listed
SourceHosts_ScrapedOnly(urls) ==
    LET idx == SelectSeq([i \in 1..Len(urls) |-> i], LAMBDA i : IsScraped(pages[i]))
    IN  [k \in 1..Len(idx) |-> Domain(urls[idx[k]])]

\* url.split("/")[2] if len(url.split("/")) > 2 else url, for each source
SourceHosts(urls) == [i \in 1..Len(urls) |-> Domain(urls[i])]

\* await chutes_chat(...) of the synthesis returns: the response
SynthDone ==
    /\ pc = "synth"
    /\ \E out \in SynthOutcomes :
        /\ ended' = [ended EXCEPT !.synth = IF out.kind = "raise" THEN "fault" ELSE "ok"]
        /\ IF out.kind = "raise" THEN Failed("synth", Msg.Timeout)
           ELSE
               /\ pc' = "done"
               /\ err' = err
               /\ IF ep = "ask" THEN
                      /\ resp' = [status |-> 200, ok |-> "none", text |-> out.val,
                                  sources |-> scrape_urls, count |-> Len(scrape_urls)]
                      /\ activity_log' = log_activity(activity_log, "ask",
                             q \o LogLit.ElapsedComma \o Str(Len(all_results)) \o LogLit.Found
                               \o Str(Len(scrape_urls)) \o LogLit.Scraped, "ok")
                  ELSE
                      /\ resp' = [status |-> 200, ok |-> "true",
                                  text |-> truncate_utf8(price_info \o out.val, max_bytes),
                                  sources |-> (IF price_info # <<>> THEN <<Msg.Coingecko>>
                                               ELSE <<>>) \o SourceHosts(scrape_urls),
                                  count |-> 0]
                      /\ activity_log' = log_activity(activity_log, "intel",
                             LogLit.SearchTag \o q \o LogLit.ElapsedComma
                               \o Str(Len(scrape_urls)) \o LogLit.Scraped, "ok")
    /\ UNCHANGED <<ep, q, coin, mode, max_bytes, price_info, ddg_st, news_st,
                   ddg_results, news_results, all_results, picked, scrape_urls,
                   task_st, pages, order, scraped, context, req, started>>
    /\ UNCHANGED <<truncVars, selVars, mergeVars, poolVars, adminVars>>

\* api_intel, browse mode: await scrape_url(url) returns
BrowseJoin ==
    /\ pc = "browse_scrape"
    /\ AllDone
    /\ order' = <<>>
    /\ IF pages[1].kind = "exc" THEN
           \* the fault is no Exception: the handler's except clause lets it
           \* pass and the server answers 500 itself
           /\ resp' = [status |-> 500, ok |-> "none", text |-> <<>>,
                       sources |-> <<>>, count |-> 0]
           /\ err' = "scrape"
           /\ pc' = "done"
           /\ UNCHANGED <<activity_log, started>>
       ELSE IF pages[1].val = <<>> \/ StartsWith(pages[1].val, Msg.Error) THEN
           /\ resp' = [status |-> 200, ok |-> "false",
                       text |-> Msg.ScrapeFailed \o PySliceTo(pages[1].val, ErrMax),
                       sources |-> <<>>, count |-> 0]
           /\ pc' = "done"
           /\ UNCHANGED <<err, activity_log, started>>
       ELSE
           /\ pc' = "browse_llm"
           /\ started' = [started EXCEPT !.synth = @ + 1]
           /\ UNCHANGED <<resp, err, activity_log>>
    /\ UNCHANGED <<ep, q, coin, mode, max_bytes, price_info, ddg_st, news_st,
                   ddg_results, news_results, all_results, picked, scrape_urls,
                   task_st, pages, scraped, context, req, ended>>
    /\ UNCHANGED <<truncVars, selVars, mergeVars, poolVars, adminVars>>

\* api_intel, browse mode: await chutes_chat(...) returns
BrowseLlmDone ==
    /\ pc = "browse_llm"
    /\ \E out \in SynthOutcomes :
        /\ ended' = [ended EXCEPT !.synth = IF out.kind = "raise" THEN "fault" ELSE "ok"]
        /\ IF out.kind = "raise" THEN Failed("synth", Msg.Timeout)
           ELSE
               /\ resp' = [status |-> 200, ok |-> "true",
                           text |-> truncate_utf8(out.val, max_bytes),
                           sources |-> <<Domain(scrape_urls[1])>>, count |-> 0]
               /\ activity_log' = log_activity(activity_log, "intel",
                      LogLit.BrowseTag \o scrape_urls[1] \o LogLit.ElapsedEnd, "ok")
               /\ pc' = "done"
               /\ err' = err
    /\ UNCHANGED <<ep, q, coin, mode, max_bytes, price_info, ddg_st, news_st,
                   ddg_results, news_results, all_results, picked, scrape_urls,
                   task_st, pages, order, scraped, context, req, started>>
    /\ UNCHANGED <<truncVars, selVars, mergeVars, poolVars, adminVars>>

Init == TruncIdle /\ SelIdle /\ MergeIdle /\ ReqIdle /\ PoolIdle /\ AdminIdle

Next ==
    \/ AskRequest
    \/ IntelRequest
    \/ PriceDone
    \/ IntelPriceDone
    \/ DdgStart
    \/ DdgDone
    \/ NewsDone
    \/ SearchJoin
    \/ PickDone
    \/ ScrapeStart
    \/ ScrapeDone
    \/ ScrapeJoin
    \/ SynthDone
    \/ BrowseJoin
    \/ BrowseLlmDone

Spec == Init /\ [][Next]_vars

\* --------------------------------------- the worker pool under several requests
\* Every stealth fetch goes through _executor: ddg_search and scrape_url hand
\* _ddg_search and _scrape_url to loop.run_in_executor(_executor, ...). The
\* requests below are concurrent handler invocations (/ask, /api/intel,
\* /search: a search, then a batch of scrapes; /browse and browse mode: one
\* scrape).
Job(r, kind, i) == [r |-> r, kind |-> kind, i |-> i]

PoolInit ==
    /\ TruncIdle /\ SelIdle /\ MergeIdle /\ ReqIdle /\ AdminIdle
    /\ pool_phase = [r \in 1..MaxRequests |-> "idle"]
    /\ pool_left = [r \in 1..MaxRequests |-> 0]
    /\ pool_queue = <<>>
    /\ pool_running = {}
    /\ light = NoLight

\* a plausible slip: _ddg_search and _scrape_url called in the coroutine
\* itself: the event loop runs nothing else while a fetch executes
LoopFree_FetchInline(executing) == executing = {}

\* the event loop can run a handler step: the fetches execute in the worker
\* threads of _executor (run_in_executor), never on the loop
LoopFree(executing) == TRUE

\* a plausible slip: an executor without max_workers=4 semantics, one thread
\* per submitted job
WorkerFree_Unbounded(executing) == TRUE

\* ThreadPoolExecutor(max_workers=4): a job leaves the queue only when fewer
\* than 4 worker threads are executing
WorkerFree(executing) == Cardinality(executing) < PoolWorkers

\* await ddg_search(q): _ddg_search is submitted
PoolSearch(r) ==
    /\ LoopFree(pool_running)
    /\ pool_phase[r] = "idle"
    /\ pool_phase' = [pool_phase EXCEPT ![r] = "search"]
    /\ pool_left' = [pool_left EXCEPT ![r] = 1]
    /\ pool_queue' = Append(pool_queue, Job(r, "ddg", 1))
    /\ UNCHANGED pool_running
    /\ UNCHANGED <<light, truncVars, selVars, mergeVars, reqVars, adminVars>>

\* asyncio.gather(*[scrape_url(u) for u in scrape_urls]) after a search with
\* k selected URLs, or await scrape_url(url) of a browse request: every
\* _scrape_url is submitted at once
PoolScrape(r) ==
    /\ LoopFree(pool_running)
    /\ pool_phase[r] \in {"idle", "searched"}
    /\ \E k \in 1..(IF pool_phase[r] = "idle" THEN 1 ELSE MaxPicked) :
        /\ pool_left' = [pool_left EXCEPT ![r] = k]
        /\ pool_queue' = pool_queue \o [i \in 1..k |-> Job(r, "scrape", i)]
    /\ pool_phase' = [pool_phase EXCEPT ![r] = "scrape"]
    /\ UNCHANGED pool_running
    /\ UNCHANGED <<light, truncVars, selVars, mergeVars, reqVars, adminVars>>

\* the request ends after the search without scraping (no results, an error,
\* /search)
PoolAnswer(r) ==
    /\ LoopFree(pool_running)
    /\ pool_phase[r] = "searched"
    /\ pool_phase' = [pool_phase EXCEPT ![r] = "done"]
    /\ UNCHANGED <<pool_left, pool_queue, pool_running>>
    /\ UNCHANGED <<light, truncVars, selVars, mergeVars, reqVars, adminVars>>

\* a worker thread takes the oldest job of the queue
PoolTake ==
    /\ pool_queue # <<>>
    /\ WorkerFree(pool_running)
    /\ pool_running' = pool_running \cup {Head(pool_queue)}
    /\ pool_queue' = Tail(pool_queue)
    /\ UNCHANGED <<pool_phase, pool_left>>
    /\ UNCHANGED <<light, truncVars, selVars, mergeVars, reqVars, adminVars>>

\* a fetch returns or raises: its worker is free again, and the request
\* resumes when it was the last fetch it waited for
PoolFinish ==
    /\ \E j \in pool_running :
        /\ pool_running' = pool_running \ {j}
        /\ pool_left' = [pool_left EXCEPT ![j.r] = @ - 1]
        /\ pool_phase' =
               IF pool_left[j.r] > 1 THEN pool_phase
               ELSE [pool_phase EXCEPT ![j.r] = IF @ = "search" THEN "searched" ELSE "done"]
    /\ UNCHANGED pool_queue
    /\ UNCHANGED <<light, truncVars, selVars, mergeVars, reqVars, adminVars>>

\* a light request arrives: "lookup" stands for /price, /hit and /api/intel
\* in price mode, which await one httpx call; /health answers at once
LightRequest ==
    /\ LoopFree(pool_running)
    /\ light.phase = "idle"
    /\ \E e \in {"lookup", "health"} :
        light' = IF e = "health"
                 THEN [ep |-> e, phase |-> "done",
                       full |-> Cardinality(pool_running) = PoolWorkers]
                 ELSE [ep |-> e, phase |-> "await", full |-> FALSE]
    /\ UNCHANGED <<pool_phase, pool_left, pool_queue, pool_running>>
    /\ UNCHANGED <<truncVars, selVars, mergeVars, reqVars, adminVars>>

\* the httpx call of the light request returns or raises (timeout=10 for the
\* price, 15 for /hit): the handler sends its response
LightDone ==
    /\ LoopFree(pool_running)
    /\ light.phase = "await"
    /\ light' = [light EXCEPT !.phase = "done",
                              !.full = Cardinality(pool_running) = PoolWorkers]
    /\ UNCHANGED <<pool_phase, pool_left, pool_queue, pool_running>>
    /\ UNCHANGED <<truncVars, selVars, mergeVars, reqVars, adminVars>>

PoolNext ==
    \/ \E r \in 1..MaxRequests : PoolSearch(r)
    \/ \E r \in 1..MaxRequests : PoolScrape(r)
    \/ \E r \in 1..MaxRequests : PoolAnswer(r)
    \/ PoolTake
    \/ PoolFinish
    \/ LightRequest
    \/ LightDone

SpecPool == PoolInit /\ [][PoolNext]_vars

\* What the code's scheduling guarantees for the light request: its httpx call
\* comes back within its timeout and the event loop then runs its handler. No
\* fairness for the stealth fetches: StealthyFetcher.fetch may never return.
SpecPoolLive == PoolInit /\ [][PoolNext]_vars /\ WF_vars(LightDone) /\ WF_vars(PoolTake)

\* ------------------------------------------- the price step over many queries
\* The queries: one or two of the keywords, "ETH", "Solar", "method", "bit"
\* and "cats", separated by a space
CoinQueries ==
    LET atoms == {Word.price, Word.btc, Word.bitcoin, Word.eth, Word.ethereum,
                  Word.sol, Word.solana, Word.crypto, Word.bit, Q_Cats,
                  <<69, 84, 72>>, <<83, 111, 108, 97, 114>>,
                  <<109, 101, 116, 104, 111, 100>>}
    IN  atoms \cup {a \o <<32>> \o b : a \in atoms, b \in atoms}

\* GET /ask?q=query
CoinAsk == \E query \in CoinQueries : AskRequestOf(query)

\* POST /api/intel {"query": query} with the API key, in search mode
CoinIntel ==
    \E query \in CoinQueries :
        IntelRequestOf([key_ok |-> TRUE, json_ok |-> TRUE, query |-> query,
                        mode |-> "search", url |-> <<>>, has_max |-> FALSE, maxv |-> 0,
                        kinds |-> WellTyped])

CoinNext == CoinAsk \/ CoinIntel \/ PriceDone

SpecCoin == Init /\ [][CoinNext]_vars

\* ------------------------------------------------ claims on _truncate_utf8
Prefixes(s) == {SubSeq(s, 1, k) : k \in 0..Len(s)}

\* C7: for every text and every integer max_bytes the UTF-8 encoding of
\* _truncate_utf8(text, max_bytes) is at most max_bytes bytes long.
C7_ByteBound ==
    t_pc \in {"once", "twice"} => ByteLen(t_out) <= t_max

\* what does hold: the byte bound for every max_bytes >= 0
TruncFitsNonNegative ==
    (t_pc \in {"once", "twice"} /\ t_max >= 0) => ByteLen(t_out) <= t_max

\* C8: for every text and max_bytes the result is a prefix of the text made
\* of whole characters, a character that straddles the cut is dropped, and the
\* result is the longest such prefix that fits in max_bytes.
C8_LongestPrefix ==
    t_pc \in {"once", "twice"} =>
        /\ t_out \in Prefixes(t_text)
        /\ ByteLen(t_out) <= t_max
        /\ \A p \in Prefixes(t_text) : Len(p) > Len(t_out) => ByteLen(p) > t_max

\* what does hold: always a prefix, and the longest fitting one for max_bytes >= 0
TruncPrefixNonNegative ==
    t_pc \in {"once", "twice"} =>
        /\ t_out \in Prefixes(t_text)
        /\ t_max >= 0 =>
            /\ ByteLen(t_out) <= t_max
            /\ \A p \in Prefixes(t_text) :
                   Len(p) > Len(t_out) => ByteLen(p) > t_max

\* C9: truncating twice with the same budget gives what truncating once
\* gives, and a text whose encoding already fits is returned unchanged.
C9_Idempotent ==
    /\ t_pc = "twice" => t_out2 = t_out
    /\ (t_pc \in {"once", "twice"} /\ ByteLen(t_text) <= t_max) => t_out = t_text

\* what does hold: idempotence for every max_bytes >= 0
TruncIdempotentNonNegative ==
    /\ (t_pc = "twice" /\ t_max >= 0) => t_out2 = t_out
    /\ (t_pc \in {"once", "twice"} /\ ByteLen(t_text) <= t_max) => t_out = t_text

\* -------------------------------------------------- claims on page selection
InBounds(reply, n) == InBoundsOf(FindAllDigits(reply, <<>>), n)

\* C2: with candidates present, a reply with no integer token at all, or with
\* only out-of-bounds integers, selects the first min(4, n) indices in
\* ascending order; the Selection is never empty when candidates exist.
C2_Fallback ==
    (s_pc = "picked" /\ s_n > 0) =>
        /\ s_picked # <<>>
        /\ (\A i \in 1..Len(s_reply) : ~IsDigit(s_reply[i]))
               => s_picked = [i \in 1..Min(4, s_n) |-> i - 1]
        /\ (\A i \in 1..Len(FindAllDigits(s_reply, <<>>)) :
                IntOf(FindAllDigits(s_reply, <<>>)[i]) >= s_n)
               => s_picked = [i \in 1..Min(4, s_n) |-> i - 1]

\* a reply holding only the out-of-bounds 15 and an "x", over 6 candidates
C2_Witness ==
    /\ s_pc = "picked"
    /\ s_n = 6
    /\ s_reply = <<49, 53, 44, 120>>
    /\ s_picked = <<0, 1, 2, 3>>

\* C3 as stated: every index is in [0, n), there are at most 5, and the
\* Selection is the first (up to 5) in-bounds integers of the reply in their
\* order of appearance.
C3_BoundsAndOrder ==
    s_pc = "picked" =>
        /\ \A i \in 1..Len(s_picked) : 0 <= s_picked[i] /\ s_picked[i] < s_n
        /\ Len(s_picked) <= 5
        /\ s_picked = SubSeq(InBounds(s_reply, s_n), 1,
                             Min(5, Len(InBounds(s_reply, s_n))))

\* C3 amended: every index is in [0, n), there are at most 5, and when the
\* reply holds at least one in-bounds integer the Selection is the first (up
\* to 5) of them in their order of appearance.
C3_BoundsAndOrderUnlessFallback ==
    s_pc = "picked" =>
        /\ \A i \in 1..Len(s_picked) : 0 <= s_picked[i] /\ s_picked[i] < s_n
        /\ Len(s_picked) <= 5
        /\ InBounds(s_reply, s_n) # <<>> =>
               s_picked = SubSeq(InBounds(s_reply, s_n), 1,
                                 Min(5, Len(InBounds(s_reply, s_n))))

\* six in-bounds integers and an out-of-bounds one: the sixth is cut off
C3_Witness ==
    /\ s_pc = "picked"
    /\ s_n = 12
    /\ Len(InBounds(s_reply, s_n)) = 6
    /\ Len(FindAllDigits(s_reply, <<>>)) > 6
    /\ Len(s_picked) = 5

\* ----------------------------------------------------------- claims on merge
ValidUrl(r) == r.url # <<>> /\ StartsWith(r.url, Http)

\* the entries of list A that are in the merge of A alone: a valid URL and no
\* earlier entry of A with a valid URL of the same host
Survives(A, i) ==
    /\ ValidUrl(A[i])
    /\ \A k \in 1..(i - 1) : ValidUrl(A[k]) => Domain(A[k].url) # Domain(A[i].url)

PositionAmongSurvivors(A, i) == Cardinality({k \in 1..i : Survives(A, k)})

IsWebEntry(r) == "snippet" \in DOMAIN r
IsNewsEntry(r) == "date" \in DOMAIN r

\* C1 as stated: whenever an entry of B has the same host as an entry of A,
\* the merged list holds, for that host, only an A entry, at the position it
\* has among A's surviving entries, and no B entry of that host.
C1_DedupPrefersWeb ==
    m_pc = "merged" =>
        \A i \in 1..Len(m_ddg), j \in 1..Len(m_news) :
            Domain(m_ddg[i].url) = Domain(m_news[j].url) =>
                /\ \A k \in 1..Len(m_all) :
                       Domain(m_all[k].url) = Domain(m_news[j].url)
                           => IsWebEntry(m_all[k])
                /\ \E a \in 1..Len(m_ddg) :
                       /\ Domain(m_ddg[a].url) = Domain(m_news[j].url)
                       /\ Survives(m_ddg, a)
                       /\ m_all[PositionAmongSurvivors(m_ddg, a)] = m_ddg[a]

\* C1 amended: whenever an entry of B has the same host as an entry of A
\* whose URL starts with "http", the merged list holds, for that host, only
\* an A entry (the first such), at the position it has among A's surviving
\* entries, and no B entry of that host.
C1_DedupPrefersValidWeb ==
    m_pc = "merged" =>
        \A i \in 1..Len(m_ddg), j \in 1..Len(m_news) :
            (ValidUrl(m_ddg[i]) /\ Domain(m_ddg[i].url) = Domain(m_news[j].url)) =>
                /\ \A k \in 1..Len(m_all) :
                       Domain(m_all[k].url) = Domain(m_news[j].url)
                           => IsWebEntry(m_all[k])
                /\ Cardinality({k \in 1..Len(m_all) :
                       Domain(m_all[k].url) = Domain(m_news[j].url)}) = 1
                /\ \E a \in 1..Len(m_ddg) :
                       /\ Domain(m_ddg[a].url) = Domain(m_news[j].url)
                       /\ Survives(m_ddg, a)
                       /\ m_all[PositionAmongSurvivors(m_ddg, a)] = m_ddg[a]

\* web [http://b, https://a/y] and news [http://a/x, ...]: the news entry of
\* host a is dropped, the web entry of host a stays second
C1_Witness ==
    /\ m_pc = "merged"
    /\ Len(m_ddg) = 2 /\ m_ddg[1].url = UrlB /\ m_ddg[2].url = UrlAy
    /\ Len(m_news) = 2 /\ m_news[1].url = UrlAx /\ m_news[2].url = UrlNoHost
    /\ Len(m_all) = 3
    /\ m_all[2] = m_ddg[2]
    /\ IsNewsEntry(m_all[3])

\* ------------------------------------------------- claims on the scrape batch
\* the outcome the page behind the i-th selected candidate gives
OutcomeOfSelected(i) == scrape_url(all_results[picked[i] + 1].url)

\* a scrape succeeded: text that is no error marker, longer than 50 characters
Succeeded(outcome) ==
    /\ outcome.kind = "str"
    /\ SubSeq(outcome.val, 1, Min(5, Len(outcome.val))) # Msg.Error
    /\ Len(outcome.val) >= 51

InBatch == ep \in {"ask", "intel"} /\ mode # "browse"

\* C4: a fault in the fetch of one selected URL neither aborts the batch nor
\* raises to the caller; the batch yields one outcome per selected URL, the
\* outcomes of the pages that were fetched intact.
C4_ScrapeIsolation ==
    InBatch =>
        /\ err # "scrape"
        /\ (pc = "scrape" /\ AllDone) => ENABLED ScrapeJoin
        /\ pc = "synth" =>
            /\ Len(pages) = Len(scrape_urls)
            /\ \A i \in 1..Len(pages) :
                /\ pages[i].kind \in {"str", "exc"}
                /\ Fetch(scrape_urls[i]).kind = "page" =>
                       pages[i] = scrape_url(scrape_urls[i])

\* the batch is over: one fetch ended in a fault that is no Exception, one in
\* an Exception (its outcome the "Error scraping" string), and one page was
\* scraped
C4_Witness ==
    /\ InBatch
    /\ pc = "synth"
    /\ \E i, j, k \in 1..Len(pages) :
        /\ pages[i].kind = "exc"
        /\ Fetch(scrape_urls[k]).kind = "raise"
        /\ pages[k].kind = "str" /\ StartsWith(pages[k].val, Msg.ErrorScraping)
        /\ Succeeded(pages[j])

\* C5: under every interleaving of the scrape completions the i-th outcome is
\* the outcome of the i-th selected URL, and every scraped block carries the
\* title and URL of the candidate whose page text it holds.
C5_ResultOrder ==
    InBatch =>
        /\ pc = "scrape" =>
               \A i \in 1..Len(pages) :
                   task_st[i] = "done" => pages[i] = OutcomeOfSelected(i)
        /\ pc = "synth" =>
               \A i \in 1..Len(pages) :
                   /\ pages[i] = OutcomeOfSelected(i)
                   /\ Succeeded(pages[i]) =>
                          Contains(context,
                              Get(all_results[picked[i] + 1], "title")
                              \o (IF ep = "ask" THEN BlockLit.BlockMidAsk ELSE BlockLit.BlockMidIntel)
                              \o all_results[picked[i] + 1].url
                              \o (IF ep = "ask" THEN BlockLit.BlockEndAsk ELSE BlockLit.BlockEndIntel)
                              \o OutcomeOfSelected(i).val \o Msg.Nl)

\* all scrapes of a batch of at least three are over, the last selected URL
\* completed first, and the first and last outcomes differ
C5_Witness ==
    /\ InBatch
    /\ pc = "scrape"
    /\ AllDone
    /\ Len(order) >= 3
    /\ order[1] = Len(order)
    /\ pages[1] # pages[Len(pages)]

\* the number of places where sub occurs in s
CountOcc(s, sub) ==
    Cardinality({i \in 1..(Len(s) - Len(sub) + 1) : SubSeq(s, i, i + Len(sub) - 1) = sub})

\* the blocks of the selected URLs whose scrape succeeded, in Selection order
RECURSIVE BlocksFrom(_)
BlocksFrom(i) ==
    IF i > Len(picked) THEN <<>>
    ELSE (IF Succeeded(pages[i])
          THEN Block(ep, all_results, picked, scrape_urls, pages, i) ELSE <<>>)
         \o BlocksFrom(i + 1)

\* C6: the context holds exactly one scraped block per selected URL whose
\* scrape succeeded and none for one whose scrape failed, in the order of the
\* Selection.
C6_ScrapedBlocks ==
    (InBatch /\ pc = "synth") =>
        LET ok == {i \in 1..Len(picked) : Succeeded(pages[i])}
            open == IF ep = "ask" THEN BlockLit.BlockOpenAsk ELSE BlockLit.BlockOpenIntel
        IN  /\ CountOcc(context, open) = Cardinality(ok)
            /\ scraped = BlocksFrom(1)
            /\ ok # {} => Contains(context, scraped)
            /\ ok = {} => scraped = <<>>

\* five URLs selected, the scrape of the second one failed: four blocks
C6_Witness ==
    /\ InBatch
    /\ pc = "synth"
    /\ Len(picked) = 5
    /\ ~Succeeded(pages[2])
    /\ \A i \in {1, 3, 4, 5} : Succeeded(pages[i])
    /\ CountOcc(context, IF ep = "ask" THEN BlockLit.BlockOpenAsk ELSE BlockLit.BlockOpenIntel) = 4

\* ------------------------------------------------ claims on the byte budget
\* C10: in every ok:true response of /api/intel, in every mode and on the
\* no-results path, the UTF-8 encoding of the facts is at most the effective
\* budget (max_bytes, default 4000, capped at 6000).
C10_FactsWithinBudget ==
    (ep = "intel" /\ pc = "done" /\ resp.ok = "true") =>
        ByteLen(resp.text) <= max_bytes

\* what does hold: the budget is kept by the synthesis responses (search with
\* candidates, browse) whenever the budget is not negative
FactsWithinBudgetAfterSynthesis ==
    (ep = "intel" /\ pc = "done" /\ resp.ok = "true" /\ max_bytes >= 0
        /\ mode \in {"search", "browse"} /\ scrape_urls # <<>>) =>
        ByteLen(resp.text) <= max_bytes

\* ------------------------------------------- claims on the /api/intel errors
\* C11: every ok:false response of /api/intel carries status 401, 400 or 500;
\* none is sent with a success status.
C11_ErrorStatuses ==
    (ep = "intel" /\ pc = "done" /\ resp.ok = "false") =>
        resp.status \in {401, 400, 500}

\* what does hold: the ok:false responses are the rejections (401, 400), the
\* handler's except clause (500) and the failed scrape of browse mode (200)
ErrorStatusesButBrowse ==
    (ep = "intel" /\ pc = "done" /\ resp.ok = "false") =>
        \/ resp.status \in {401, 400, 500}
        \/ mode = "browse" /\ resp.status = 200 /\ StartsWith(resp.text, Msg.ScrapeFailed)

\* no external call was issued and none is pending
NothingStarted ==
    /\ started = NoCalls /\ ended = NoneEnded
    /\ ddg_st = "none" /\ news_st = "none" /\ task_st = <<>>

\* C12: a request with a wrong API key (401), invalid JSON, no query outside
\* price mode or no url in browse mode (400) is answered before any external
\* call has started, and the API key is checked before the body. (A missing
\* query is an absent or blank one in a body whose fields the handler can
\* read.)
C12_ValidationFirst ==
    (ep = "intel" /\ pc = "done") =>
        LET body_ok == req.key_ok /\ req.json_ok /\ FieldFault(req) = "none"
            no_query == Strip(req.query) = <<>> /\ req.mode # "price"
        IN  /\ ~req.key_ok => (resp.status = 401 /\ resp.text = Msg.Unauthorized)
            /\ (req.key_ok /\ ~req.json_ok) =>
                   (resp.status = 400 /\ resp.text = Msg.InvalidJson)
            /\ (body_ok /\ no_query) =>
                   (resp.status = 400 /\ resp.text = Msg.MissingQuery)
            /\ (body_ok /\ ~no_query /\ req.mode = "browse" /\ req.url = <<>>) =>
                   (resp.status = 400 /\ resp.text = Msg.MissingUrl)
            /\ resp.status \in {400, 401} => (resp.ok = "false" /\ NothingStarted)

\* a request with a wrong key and a body that is no JSON was answered 401
C12_Witness ==
    /\ ep = "intel" /\ pc = "done"
    /\ ~req.key_ok /\ ~req.json_ok
    /\ resp.status = 401
    /\ NothingStarted

\* ------------------------------------------ claims on the no-results answer
\* C13: when the merged candidate list of /ask is empty, the response is a
\* non-error answer holding the 'No search results found' message, preceded
\* by the live price line when one was obtained, with no sources; no selection
\* or synthesis call and no scrape is made.
C13_AskNoResults ==
    (ep = "ask" /\ pc = "done" /\ err = "none" /\ all_results = <<>>) =>
        /\ resp.status = 200
        /\ resp.sources = <<>>
        /\ IF price_info # <<>>
           THEN /\ StartsWith(price_info, Msg.LiveData)
                /\ resp.text = price_info \o Msg.NoSearchResults \o q
           ELSE resp.text = Msg.NoSearchResults \o q
        /\ started.pick = 0 /\ started.synth = 0 /\ started.scrape = <<>>
        /\ task_st = <<>> /\ pages = <<>>

\* "BTC price": the price was obtained, both searches came back empty
C13_Witness ==
    /\ ep = "ask" /\ pc = "done" /\ err = "none"
    /\ q = Q_BtcPrice
    /\ ended.price = "ok" /\ price_info # <<>>
    /\ ended.ddg = "ok" /\ ended.news = "ok"
    /\ all_results = <<>>
    /\ Contains(resp.text, Msg.NoSearchResults)

\* --------------------------------------------- claims on faults of the calls
\* the request runs the search pipeline: /ask, or /api/intel in search mode
SearchPipeline == ep = "ask" \/ (ep = "intel" /\ mode = "search")

\* C14: in /ask and /api/intel search mode a fault of the news-feed fetch or
\* of the price lookup never fails the request; the pipeline goes on as with
\* an empty news list or without a price line.
C14_OptionalAbsorbed ==
    SearchPipeline =>
        /\ err \notin {"news", "price"}
        /\ ended.news = "fault" =>
               /\ news_st = "done" /\ news_results = <<>>
               /\ (pc \in {"pick", "scrape", "synth"} \/ (pc = "done" /\ err = "none")) =>
                      all_results = MergeDedup(ddg_results, <<>>)
        /\ ended.price = "fault" =>
               /\ pc # "price" /\ price_info = <<>>
               /\ started.ddg = 1 /\ started.news = 1
               /\ (pc = "done" /\ err = "none" /\ ep = "intel" /\ all_results # <<>>) =>
                      resp.sources = SourceHosts(scrape_urls)

\* the price lookup and the news feed both faulted and the request was
\* answered from the web search's candidates
C14_Witness ==
    /\ SearchPipeline
    /\ pc = "done" /\ err = "none" /\ resp.status = 200
    /\ ended.price = "fault" /\ ended.news = "fault"
    /\ all_results # <<>> /\ ended.synth = "ok"

\* C15: in /ask and /api/intel search mode an unavailable search backend (the
\* web search or the news feed) contributes an empty list and the pipeline
\* goes on with the candidates of the other one; the request ends in the
\* no-results answer only when there are no candidates at all.
C15_BackendDegrades ==
    SearchPipeline =>
        /\ err \notin {"ddg", "news"}
        /\ ended.ddg = "fault" => (ddg_st = "done" /\ ddg_results = <<>>)
        /\ ended.news = "fault" => (news_st = "done" /\ news_results = <<>>)
        /\ (pc = "done" /\ resp.status = 200 /\ started.pick = 0) =>
               (ended.ddg # "no" /\ ended.news # "no" /\ all_results = <<>>)

\* what does hold: the news feed degrades, and the no-results answer is given
\* only without candidates; a fault of the web search ends the request
BackendDegradesNewsOnly ==
    SearchPipeline =>
        /\ err # "news"
        /\ ended.news = "fault" => (news_st = "done" /\ news_results = <<>>)
        /\ ended.ddg = "fault" => (err = "ddg" /\ pc = "done" /\ resp.status = 500)
        /\ (pc = "done" /\ resp.status = 200 /\ started.pick = 0) =>
               (ended.ddg = "ok" /\ ended.news # "no" /\ all_results = <<>>)

\* ------------------------------------------------- claims on the worker pool
\* C16: in every reachable state, across all concurrent requests and across
\* web searches and page scrapes, at most 4 stealth fetches are executing;
\* further fetches wait until a worker is free.
C16_BoundedFetches ==
    /\ Cardinality(pool_running) <= 4
    /\ (pool_queue # <<>> /\ Cardinality(pool_running) = 4) => ~ENABLED PoolTake
    /\ (pool_queue # <<>> /\ Cardinality(pool_running) < 4) => ENABLED PoolTake
    /\ \A r \in DOMAIN pool_left :
           pool_left[r] =
               Cardinality({j \in pool_running : j.r = r})
               + Cardinality({i \in 1..Len(pool_queue) : pool_queue[i].r = r})

\* four fetches are executing, a web search and scrapes of two requests among
\* them, and further fetches are waiting
C16_Witness ==
    /\ Cardinality(pool_running) = 4
    /\ \E j, k \in pool_running : j.r # k.r /\ j.kind = "ddg" /\ k.kind = "scrape"
    /\ Len(pool_queue) >= 2

\* ------------------------------------------------- claims on the step order
\* C17: within one search pipeline, a scrape exists only after the selection
\* call has returned; the synthesis call is issued only when every scrape of
\* the batch has completed or failed; and once the synthesis call is issued,
\* no search, selection or scrape is started and no scrape task changes.
C17_StepOrder ==
    /\ [](SearchPipeline =>
            /\ (started.scrape # <<>> \/ task_st # <<>>) =>
                   (ended.pick = "ok" /\ ended.ddg = "ok" /\ ended.news # "no")
            /\ started.pick > 0 => (ddg_st = "done" /\ news_st = "done")
            /\ started.synth > 0 =>
                   /\ Len(task_st) = Len(picked)
                   /\ \A i \in 1..Len(task_st) :
                          task_st[i] = "done" /\ pages[i] # NoOutcome)
    /\ [][(SearchPipeline /\ started.synth > 0) =>
            /\ started'.ddg = started.ddg /\ started'.news = started.news
            /\ started'.pick = started.pick /\ started'.scrape = started.scrape
            /\ started'.synth = started.synth
            /\ task_st' = task_st /\ ddg_st' = ddg_st /\ news_st' = news_st]_vars

\* a synthesis has answered after a batch of at least two scrapes, one of
\* which failed
C17_Witness ==
    /\ SearchPipeline /\ pc = "done" /\ ended.synth = "ok"
    /\ Len(task_st) >= 2
    /\ \E i \in 1..Len(pages) : StartsWith(pages[i].val, Msg.Error)
    /\ \E i \in 1..Len(pages) : ~StartsWith(pages[i].val, Msg.Error)

\* ------------------------------------------- claims on the two search backends
\* C18: the web search and the news-feed fetch are started together and each
\* can proceed whatever the state of the other; the merge happens only when
\* both have completed; and the merged list is ddg's results followed by the
\* news results not yet present, whichever of the two completed first.
C18_ConcurrentSearch ==
    SearchPipeline =>
        /\ started.ddg = started.news
        /\ (ddg_st = "none") <=> (news_st = "none")
        /\ (pc = "search" /\ ddg_st = "queued") => ENABLED DdgStart
        /\ (pc = "search" /\ ddg_st = "running") => ENABLED DdgDone
        /\ (pc = "search" /\ news_st = "running") => ENABLED NewsDone
        /\ (all_results # <<>> \/ started.pick > 0) =>
               (ddg_st = "done" /\ news_st = "done")
        /\ (pc \notin {"idle", "price", "search"} /\ err # "ddg") =>
               /\ order \in {<<>>, <<1, 2>>, <<2, 1>>} \/ pc # "pick"
               /\ all_results = MergeDedup(ddg_results, news_results)

\* the news feed completed before the web search, both found candidates, and
\* the merged list is not what the completion order would give
C18_Witness ==
    /\ SearchPipeline /\ pc = "pick" /\ order = <<2, 1>>
    /\ ddg_results # <<>> /\ news_results # <<>>
    /\ all_results = MergeDedup(ddg_results, news_results)
    /\ all_results # MergeDedup(news_results, ddg_results)

\* ---------------------------------------------------- claims on termination
\* What the code's scheduling guarantees: the handler's own steps are taken,
\* a free worker takes a queued fetch, and a call made through
\* httpx.AsyncClient(timeout=...) returns or raises within its timeout (15 s
\* for the feed, 45 s for the LLM, 10 s for the price). _ddg_search and
\* _scrape_url call StealthyFetcher.fetch(url) with no timeout and are awaited
\* without asyncio.wait_for: nothing in the code makes them come back.
SpecLive ==
    /\ Init /\ [][Next]_vars
    /\ WF_vars(PriceDone) /\ WF_vars(IntelPriceDone)
    /\ WF_vars(DdgStart) /\ WF_vars(NewsDone) /\ WF_vars(SearchJoin)
    /\ WF_vars(PickDone) /\ WF_vars(ScrapeStart) /\ WF_vars(ScrapeJoin)
    /\ WF_vars(SynthDone) /\ WF_vars(BrowseJoin) /\ WF_vars(BrowseLlmDone)

\* C19: every request that has arrived is eventually answered, also when an
\* external call never completes on its own.
C19_EventuallyAnswered == (pc # "idle") ~> (pc = "done")

\* ------------------------------------------------ claims on repeated attempts
\* each external call of the request was issued at most once, and the scrape
\* tasks are the entries of the selection, one task each
OneAttemptEach ==
    /\ started.price <= 1 /\ started.ddg <= 1 /\ started.news <= 1
    /\ started.pick <= 1 /\ started.synth <= 1
    /\ Len(started.scrape) = Len(scrape_urls)
    /\ \A i \in 1..Len(started.scrape) : started.scrape[i] = 1
    /\ \A c \in {"price", "ddg", "news", "pick", "synth"} :
           ended[c] # "no" => started[c] = 1

\* C20 as stated: at most one price lookup, web search, news-feed fetch,
\* selection call and synthesis call per request, no URL is scraped more than
\* once, and a failed call is never retried.
C20_AtMostOneAttempt ==
    /\ OneAttemptEach
    /\ \A i, j \in 1..Len(scrape_urls) : i # j => scrape_urls[i] # scrape_urls[j]

\* C20 as amended: at most one price lookup, web search, news-feed fetch,
\* selection call and synthesis call per request; every entry of the selection
\* is scraped exactly once, so a URL is scraped once for each time the
\* selection names it; and a failed call is never retried.
C20_OneAttemptPerSelected ==
    /\ OneAttemptEach
    /\ SearchPipeline =>
           /\ Len(scrape_urls) = Len(picked)
           /\ \A i \in 1..Len(picked) : scrape_urls[i] = all_results[picked[i] + 1].url
    /\ \A i \in 1..Len(task_st) :
           (task_st[i] = "done" /\ pages[i] # NoOutcome) \/ pages[i] = NoOutcome

\* the selection named one index twice: its URL was scraped twice, once per
\* entry, a scrape of the batch failed and was not tried again, and the
\* synthesis answered
C20_Witness ==
    /\ SearchPipeline /\ pc = "done" /\ ended.synth = "ok"
    /\ \E i, j \in 1..Len(picked) : i # j /\ picked[i] = picked[j]
                                    /\ scrape_urls[i] = scrape_urls[j]
    /\ \E i \in 1..Len(pages) : StartsWith(pages[i].val, Msg.Error)
    /\ \A i \in 1..Len(started.scrape) : started.scrape[i] = 1

\* --------------------------------------------- claims on the synthesis payload
\* the first place where sub occurs in s, 0 when it does not
IndexOf(s, sub) ==
    IF Contains(s, sub)
    THEN CHOOSE i \in 1..(Len(s) - Len(sub) + 1) :
             /\ SubSeq(s, i, i + Len(sub) - 1) = sub
             /\ \A j \in 1..(i - 1) : SubSeq(s, j, j + Len(sub) - 1) # sub
    ELSE 0

\* one line "- title: snippet" for each of the first min(10, n) candidates
DigestOfFirstTen ==
    LET n == IF Len(all_results) < 10 THEN Len(all_results) ELSE 10
    IN  Join(<<10>>, [i \in 1..n |->
            <<45, 32>> \o Get(all_results[i], "title") \o <<58, 32>>
              \o Get(all_results[i], "snippet")])

\* the digest, then the scraped blocks under their heading, end the payload
\* and nothing stands between them; a block is there if
\* and only if the outcome is a text that is no failure marker and is longer
\* than 50 characters
DigestThenBlocks ==
    /\ scraped = BlocksFrom(1)
    /\ \A i \in 1..Len(picked) :
           Contains(scraped, Block(ep, all_results, picked, scrape_urls, pages, i))
               <=> Succeeded(pages[i])
    /\ LET d == IndexOf(context, DigestOfFirstTen)
           rest == IF scraped = <<>> THEN <<>>
                   ELSE (IF ep = "ask" THEN CtxLit.ScrapedHead ELSE CtxLit.ScrapedPages)
                        \o scraped
       IN  /\ d > 0
           /\ Len(context) = d - 1 + Len(DigestOfFirstTen) + Len(rest)
           /\ SubSeq(context, Len(context) - Len(rest) + 1, Len(context)) = rest

QueryHas(sub) == Contains(Lower(req.query), sub)

\* the query matches the keyword set of its endpoint: "price", "btc",
\* "bitcoin", "eth", "ethereum", "sol", "solana", and "crypto" in /ask
MatchesCrypto ==
    \/ QueryHas(<<112, 114, 105, 99, 101>>)
    \/ QueryHas(<<98, 116, 99>>)
    \/ QueryHas(<<98, 105, 116, 99, 111, 105, 110>>)
    \/ QueryHas(<<101, 116, 104>>)
    \/ QueryHas(<<115, 111, 108>>)
    \/ (ep = "ask" /\ QueryHas(<<99, 114, 121, 112, 116, 111>>))

\* C22: once a search request has arrived, a price lookup is issued exactly
\* when the query matches the keyword set, and its coin is ethereum if the
\* lower-cased query contains "eth" (or "ethereum"), otherwise solana if it
\* contains "sol" (or "solana"), otherwise bitcoin.
C22_CoinPrecedence ==
    (SearchPipeline /\ pc # "idle") =>
        /\ started.price = (IF MatchesCrypto THEN 1 ELSE 0)
        /\ ~MatchesCrypto => (price_info = <<>> /\ ended.price = "no")
        /\ MatchesCrypto =>
               coin = IF QueryHas(<<101, 116, 104>>)
                      THEN <<101, 116, 104, 101, 114, 101, 117, 109>>
                      ELSE IF QueryHas(<<115, 111, 108>>)
                      THEN <<115, 111, 108, 97, 110, 97>>
                      ELSE <<98, 105, 116, 99, 111, 105, 110>>

\* the price of ethereum was obtained for a query that names solana first and
\* eth second
C22_Witness ==
    /\ SearchPipeline /\ pc = "search"
    /\ req.query = <<115, 111, 108, 97, 110, 97, 32, 101, 116, 104>>
    /\ coin = <<101, 116, 104, 101, 114, 101, 117, 109>>
    /\ price_info # <<>>
    /\ Contains(price_info, coin)

\* ------------------------------------------------ claims on the merged list
\* C23: for any two input lists, the merged list is a subsequence of the web
\* results followed by the news results; no two of its entries share a host,
\* also not two entries of the same input list; every entry's URL is non-empty
\* and starts with "http"; and an entry is dropped only because its URL fails
\* that test or an earlier entry has the same host.
C23_MergeInvariant ==
    m_pc = "merged" =>
        LET both == m_ddg \o m_news
            kept == {i \in 1..Len(both) : Survives(both, i)}
        IN  /\ Len(m_all) = Cardinality(kept)
            /\ \A i \in kept : m_all[PositionAmongSurvivors(both, i)] = both[i]
            /\ \A i, j \in 1..Len(m_all) :
                   i # j => Domain(m_all[i].url) # Domain(m_all[j].url)
            /\ \A i \in 1..Len(m_all) :
                   /\ m_all[i].url # <<>>
                   /\ SubSeq(m_all[i].url, 1, 4) = <<104, 116, 116, 112>>
            /\ \A i \in (1..Len(both)) \ kept :
                   \/ both[i].url = <<>>
                   \/ SubSeq(both[i].url, 1, 4) # <<104, 116, 116, 112>>
                   \/ \E k \in 1..(i - 1) : Domain(both[k].url) = Domain(both[i].url)

\* two web results of one host, a web result whose URL does not start with
\* "http", and a news result of a new host: the merge keeps the first web
\* result and the news result
C23_Witness ==
    /\ m_pc = "merged"
    /\ Len(m_ddg) = 3 /\ Len(m_news) >= 1
    /\ ValidUrl(m_ddg[1]) /\ ValidUrl(m_ddg[2])
    /\ Domain(m_ddg[1].url) = Domain(m_ddg[2].url)
    /\ ~ValidUrl(m_ddg[3])
    /\ m_all = <<m_ddg[1], m_news[1]>>

\* ------------------------------------------- claims on repeated selections
\* the number of entries of s equal to x
Times(s, x) == Cardinality({i \in 1..Len(s) : s[i] = x})

\* C24: when the reply holds an in-bounds index, the Selection is the first
\* five in-bounds integers of the reply with every repetition kept, and each
\* entry schedules the URL of its candidate, so a repeated index schedules its
\* URL once per repetition; "0,2,2,15,x" over 12 candidates gives 0, 2, 2.
C24_SelectionKeepsRepeats ==
    s_pc = "picked" =>
        LET toks == InBoundsOf(FindAllDigits(s_reply, <<>>), s_n)
            firstFive == SubSeq(toks, 1, IF Len(toks) < 5 THEN Len(toks) ELSE 5)
        IN  /\ toks # <<>> =>
                   /\ Len(s_picked) = Len(firstFive)
                   /\ \A k \in 0..(s_n - 1) : Times(s_picked, k) = Times(firstFive, k)
            /\ Len(s_urls) = Len(s_picked)
            /\ \A i \in 1..Len(s_picked) : s_urls[i] = SelCandidates(s_n)[s_picked[i] + 1].url
            /\ \A k \in 0..(s_n - 1) :
                   Times(s_urls, SelCandidates(s_n)[k + 1].url) = Times(s_picked, k)
            /\ (s_reply = <<48, 44, 50, 44, 50, 44, 49, 53, 44, 120>> /\ s_n = 12) =>
                   /\ s_picked = <<0, 2, 2>>
                   /\ s_urls = <<UrlOf(65), UrlOf(67), UrlOf(67)>>

\* the reply "0,2,2,15,x" over 12 candidates was parsed: the third candidate's
\* URL is scheduled twice
C24_Witness ==
    /\ s_pc = "picked"
    /\ s_reply = <<48, 44, 50, 44, 50, 44, 49, 53, 44, 120>>
    /\ s_n = 12
    /\ s_picked = <<0, 2, 2>>
    /\ Len(s_urls) = 3 /\ s_urls[2] = s_urls[3]

\* ------------------------------------------ claims on requests without fetch
\* C25: a request that needs no stealth fetch can always take its step,
\* whatever the pool is doing, and once it has arrived it gets its response,
\* also while all 4 workers execute fetches that never return.
C25_LightNotStalled ==
    /\ [](light.phase = "idle" => ENABLED LightRequest)
    /\ [](light.phase = "await" => ENABLED LightDone)
    /\ (light.phase = "await") ~> (light.phase = "done")

\* a light request that awaited its call got its response while 4 workers
\* were executing fetches and further fetches were queued
C25_Witness ==
    /\ light.phase = "done" /\ light.ep = "lookup"
    /\ light.full
    /\ Cardinality(pool_running) = 4
    /\ pool_queue # <<>>

\* --------------------------------------- claims on the shape of the response
\* C26: every /api/intel request with the correct API key and a JSON body,
\* whatever the JSON types of the body and of its fields, is answered with
\* {ok: true, f, s, t} or {ok: false, e}; no exception leaves the handler, and
\* an internal fault gives status 500 with the message cut to 200 characters.
C26_StructuredAlways ==
    (ep = "intel" /\ req.key_ok /\ req.json_ok /\ pc = "done") =>
        /\ resp.ok \in {"true", "false"}
        /\ err # "none" =>
               (resp.ok = "false" /\ resp.status = 500 /\ Len(resp.text) <= 200)

\* ------------------------------------------------ claims on reported sources
\* the URL of the candidate the i-th entry of the Selection names
SelectedUrl(i) == all_results[picked[i] + 1].url

\* C27: on a successful /ask response, sources is the selected URLs in
\* Selection order and scraped_count is their number, whatever the scrapes
\* gave; on a successful /api/intel search response, s is the hosts of the
\* selected URLs in Selection order, with "coingecko.com" first exactly when a
\* price prefix was obtained.
C27_SourcesMirrorSelection ==
    (SearchPipeline /\ pc = "done" /\ ended.synth = "ok") =>
        /\ ep = "ask" =>
               /\ Len(resp.sources) = Len(picked)
               /\ resp.count = Len(picked)
               /\ \A i \in 1..Len(picked) : resp.sources[i] = SelectedUrl(i)
        /\ ep = "intel" =>
               LET off == IF price_info # <<>> THEN 1 ELSE 0
               IN  /\ Len(resp.sources) = Len(picked) + off
                   /\ off = 1 => resp.sources[1] =
                          <<99, 111, 105, 110, 103, 101, 99, 107, 111, 46, 99, 111, 109>>
                   /\ \A i \in 1..Len(picked) :
                          /\ Len(SelectedUrl(i)) = 9
                          /\ resp.sources[i + off] = SubSeq(SelectedUrl(i), 8, 8)

\* a successful /api/intel search response with a price prefix after a batch
\* in which a scrape failed: coingecko.com, then one host per selected URL
C27_Witness ==
    /\ ep = "intel" /\ mode = "search" /\ pc = "done" /\ ended.synth = "ok"
    /\ price_info # <<>>
    /\ Len(picked) >= 3
    /\ \E i \in 1..Len(pages) : ~Succeeded(pages[i])
    /\ Len(resp.sources) = Len(picked) + 1
    /\ resp.sources[1] = Msg.Coingecko

\* ------------------------------------------------ the activity log on its own
\* the bound on the calls the log driver makes: past MAX_LOG, so that the log
\* fills and then turns over once
MaxLogCalls == 104

\* One call of log_activity by a handler (lines 60-68).  The n-th call logs its
\* own number n as the detail, so that every entry names the call that made
\* it.  The statuses of a run are a block of "ok" followed by a block of
\* "error" (a backend that goes down and stays down): one free choice per
\* entry would give 2^50 logs.
LogCall ==
    /\ log_calls < MaxLogCalls
    /\ \E status \in (IF activity_log # <<>> /\ activity_log[1].status = "error"
                      THEN {"error"} ELSE {"ok", "error"}) :
          activity_log' = log_activity(activity_log, "ask", Str(log_calls + 1), status)
    /\ log_calls' = log_calls + 1
    /\ UNCHANGED <<reqLocals, sessions, now, issued, revoked, verdict>>
    /\ UNCHANGED <<truncVars, selVars, mergeVars, poolVars>>

SpecLog == Init /\ [][LogCall]_vars

\* C28: after n calls of log_activity the log holds min(n, 50) entries, they
\* are the calls n, n-1, ... (the most recent ones, newest first), and a call
\* made on a full log keeps the 49 newest entries behind the new one, so it
\* evicts exactly the oldest.
C28_LogCap ==
    /\ [](/\ Len(activity_log) = Min(log_calls, 50)
          /\ \A i \in 1..Len(activity_log) :
                activity_log[i].detail = Str(log_calls - i + 1))
    /\ [][(Len(activity_log) = 50 /\ log_calls' # log_calls)
            => /\ Len(activity_log') = 50
               /\ SubSeq(activity_log', 2, 50) = SubSeq(activity_log, 1, 49)]_vars

\* the log is full and has turned over: calls 1 and 2 are evicted, call 3 is
\* the oldest entry, and an "ok" entry and an "error" entry are both in it
C28_Witness ==
    /\ log_calls = 52 /\ Len(activity_log) = 50
    /\ activity_log[50].detail = Str(3) /\ activity_log[50].status = "ok"
    /\ activity_log[1].detail = Str(52) /\ activity_log[1].status = "error"

\* ---------------------------------------------------- the dashboard sessions
\* the bound on the login attempts of a run
MaxLogins == 2
\* the instants at which the clock is read: the origin and one session
\* lifetime after it, and up to MaxSkew seconds past either
MaxSkew == 1

\* the lifetime of a session, in seconds (line 584)
SessionTtl == 86400

AuthLit ==
    \* AUTH_USER = "markcryer"   (line 48)
    [User |-> <<109, 97, 114, 107, 99, 114, 121, 101, 114>>,
    \* the password behind AUTH_PASS_HASH, "Amazonkindle1"   (line 49)
     Pass |-> <<65, 109, 97, 122, 111, 110, 107, 105, 110, 100, 108, 101, 49>>,
    \* the absent form field "": another user name, another password
     Absent |-> <<>>,
    \* "login: "   (line 587)
     Login |-> <<108, 111, 103, 105, 110, 58, 32>>,
    \* "failed login: "   (line 589)
     Failed |-> <<102, 97, 105, 108, 101, 100, 32, 108, 111, 103, 105, 110, 58, 32>>]

\* hashlib.sha256(pw.encode()).hexdigest(): the digest stands for its
\* preimage, two passwords never share one
Sha256(pw) == [sha256 |-> pw]

AUTH_PASS_HASH == Sha256(AuthLit.Pass)

\* the form fields a client posts to /login
LoginForms ==
    {[user |-> u, pw |-> p] :
        u \in {AuthLit.User, AuthLit.Absent},
        p \in {AuthLit.Pass, AuthLit.Absent}}

\* the session cookies a client presents: none (0), and every token a login
\* of the run issues, before it is issued as well as after
Cookies == 0..MaxLogins

Instants == {d * SessionTtl + s : d \in 0..1, s \in 0..MaxSkew}

\* POST /login (lines 577-590).  secrets.token_hex(24) draws 192 random bits:
\* the token is one that no login has issued before.
Login ==
    /\ Len(activity_log) < MaxLogins
    /\ \E form \in LoginForms :
          IF form.user = AuthLit.User /\ Sha256(form.pw) = AUTH_PASS_HASH
          THEN LET token == Cardinality(DOMAIN issued) + 1
               IN  /\ sessions' = [k \in DOMAIN sessions \cup {token} |->
                                      IF k = token THEN now + SessionTtl ELSE sessions[k]]
                   /\ issued' = [k \in DOMAIN issued \cup {token} |->
                                      IF k = token THEN now ELSE issued[k]]
                   /\ activity_log' = log_activity(activity_log, "auth",
                                                   AuthLit.Login \o form.user, "ok")
          ELSE /\ activity_log' = log_activity(activity_log, "auth",
                                               AuthLit.Failed \o form.user, "error")
               /\ UNCHANGED <<sessions, issued>>
    /\ verdict' = NoVerdict
    /\ UNCHANGED <<reqLocals, log_calls, now, revoked>>
    /\ UNCHANGED <<truncVars, selVars, mergeVars, poolVars>>

\* GET /logout (lines 593-599)
Logout ==
    /\ \E session \in Cookies :
          IF session # 0 /\ session \in DOMAIN sessions
          THEN /\ sessions' = Del(sessions, session)
               /\ revoked' = [revoked EXCEPT !.logout = @ \cup {session}]
          ELSE UNCHANGED <<sessions, revoked>>
    /\ verdict' = NoVerdict
    /\ UNCHANGED <<log_calls, now, issued>>
    /\ UNCHANGED <<truncVars, selVars, mergeVars, reqVars, poolVars>>

\* GET / and GET /api/log (lines 568-572, 602-606): what either does to the
\* state is its check_session(session) call
Dashboard ==
    /\ \E session \in Cookies :
          LET r == check_session(session, sessions, now)
          IN  /\ sessions' = r.map
              /\ revoked' = [revoked EXCEPT
                               !.expired = @ \cup (DOMAIN sessions \ DOMAIN r.map)]
              /\ verdict' = [token |-> session, at |-> now, ok |-> r.ok]
    /\ UNCHANGED <<log_calls, now, issued>>
    /\ UNCHANGED <<truncVars, selVars, mergeVars, reqVars, poolVars>>

\* time passes between two requests; time.time() is the wall clock, which an
\* adjustment can also set back
Tick ==
    /\ \E t \in Instants \ {now} : now' = t
    /\ verdict' = NoVerdict
    /\ UNCHANGED <<log_calls, sessions, issued, revoked>>
    /\ UNCHANGED <<truncVars, selVars, mergeVars, reqVars, poolVars>>

SessNext == Login \/ Logout \/ Dashboard \/ Tick

SpecSess == Init /\ [][SessNext]_vars

\* C29: a check accepts a token only if a login with the right credentials
\* issued it, no logout has removed it, and the time of the check is not past
\* issue time + 86400; a token found expired by a check is out of the map and
\* no later check accepts it; a failed login leaves the map as it was.
C29_SessionLifecycle ==
    /\ [](verdict.ok =>
            /\ verdict.token \in DOMAIN issued
            /\ verdict.token \notin revoked.logout
            /\ verdict.token \notin revoked.expired
            /\ verdict.at <= issued[verdict.token] + 86400)
    /\ []((/\ verdict.token \in DOMAIN issued
           /\ verdict.at > issued[verdict.token] + 86400)
            => /\ ~verdict.ok
               /\ verdict.token \notin DOMAIN sessions)
    /\ [](\A t \in revoked.expired \cup revoked.logout : t \notin DOMAIN sessions)
    /\ [][(activity_log' # activity_log /\ activity_log'[1].status = "error")
            => sessions' = sessions]_vars
    /\ [](Cardinality(DOMAIN issued)
            = Cardinality({i \in 1..Len(activity_log) : activity_log[i].status = "ok"}))

\* token 1 was found expired and removed, and token 2, issued later, is
\* accepted at the very second of its expiry
C29_Witness ==
    /\ verdict.ok /\ verdict.token = 2 /\ verdict.at = issued[2] + 86400
    /\ 1 \in revoked.expired

\* ------------------------- a request to a process that has served before
\* The state in which the request arrives: n logins at the origin of the
\* clock have left n sessions and n entries in the log (none, one, or as
\* many as fill the log), and no handler is running.
InitAfter ==
    /\ TruncIdle /\ SelIdle /\ MergeIdle /\ PoolIdle /\ LocalsIdle
    /\ \E n \in {0, 1, MAX_LOG} :
          /\ sessions = [k \in 1..n |-> SessionTtl]
          /\ issued = [k \in 1..n |-> 0]
          /\ activity_log = [k \in 1..n |->
                               [action |-> "auth",
                                detail |-> AuthLit.Login \o AuthLit.User,
                                status |-> "ok"]]
    /\ log_calls = 0 /\ now = 0
    /\ revoked = [logout |-> {}, expired |-> {}] /\ verdict = NoVerdict

SpecAfter == InitAfter /\ [][Next]_vars

\* C30: no step of an /ask or /api/intel invocation changes the session map;
\* the only thing a step does to the activity log is to put one entry of its
\* own in front of the entries it found (the oldest leaving a full log); and
\* the invocation works on nothing but its own results: every candidate is a
\* result of its own two searches, and every URL it scrapes is a candidate's
\* (in browse mode, the URL of the request).
C30_NoCrossRequestState ==
    /\ [][sessions' = sessions /\ issued' = issued /\ revoked' = revoked]_vars
    /\ [][\/ activity_log' = activity_log
          \/ /\ activity_log'[1].action \in {"ask", "intel"}
             /\ Len(activity_log') = Min(Len(activity_log) + 1, 50)
             /\ Tail(activity_log') = SubSeq(activity_log, 1, Len(activity_log') - 1)]_vars
    /\ [](\A i \in 1..Len(all_results) :
             \/ \E j \in 1..Len(ddg_results) : all_results[i] = ddg_results[j]
             \/ \E j \in 1..Len(news_results) : all_results[i] = news_results[j])
    /\ [](\A i \in 1..Len(scrape_urls) :
             \/ mode = "browse" /\ scrape_urls[i] = req.url
             \/ \E j \in 1..Len(all_results) : scrape_urls[i] = all_results[j].url)

\* an answered search in a process with a session and a full log: the
\* session is still there, the request's entries are in front of the log,
\* older entries are behind them, and candidates were merged and scraped
C30_Witness ==
    /\ pc = "done" /\ resp.status = 200 /\ mode # "browse"
    /\ DOMAIN sessions = 1..50
    /\ Len(activity_log) = 50
    /\ activity_log[1].action \in {"ask", "intel"}
    /\ activity_log[50].action = "auth"
    /\ Len(all_results) > 1 /\ Len(scrape_urls) > 1

====
